---------------------------- MODULE Spec2Model ----------------------------
(***************************************************************************)
(* Memory / knowledge / style subsystem of the KI-Kumpel assistant:        *)
(*   memory/memory_db.py          MemoryDB (interactions and facts tables) *)
(*   memory/knowledge_builder.py  KnowledgeBuilder (extraction, ranking)   *)
(*   memory/style_profile.py      apply_style                              *)
(*   core/router.py               AssistantRouter (one request end to end) *)
(*                                                                         *)
(* A text is a sequence of characters; a character is a one-letter string. *)
(* The German letters are written as the tokens "ae" "oe" "ue" "sz" "AE"   *)
(* "OE" "UE", each of which stands for ONE character.                      *)
(***************************************************************************)
EXTENDS Integers, Sequences, FiniteSets, TLC

(***************************************************************************)
(* Python str / re primitives, computed character by character.            *)
(***************************************************************************)

\* str.isspace() for the characters of the model
Whitespace == {" ", "\n", "\t"}

LowerLetters ==
    <<"a", "b", "c", "d", "e", "f", "g", "h", "i", "j", "k", "l", "m", "n", "o", "p", "q",
      "r", "s", "t", "u", "v", "w", "x", "y", "z", "ae", "oe", "ue">>

UpperLetters ==
    <<"A", "B", "C", "D", "E", "F", "G", "H", "I", "J", "K", "L", "M", "N", "O", "P", "Q",
      "R", "S", "T", "U", "V", "W", "X", "Y", "Z", "AE", "OE", "UE">>

Digits == <<"0", "1", "2", "3", "4", "5", "6", "7", "8", "9">>

Range(s) == {s[i] : i \in DOMAIN s}

LowerMap == [c \in Range(UpperLetters) |->
                LowerLetters[CHOOSE i \in DOMAIN UpperLetters : UpperLetters[i] = c]]

UpperMap == [c \in Range(LowerLetters) |->
                UpperLetters[CHOOSE i \in DOMAIN LowerLetters : LowerLetters[i] = c]]

\* the characters the regular expression class \w matches
WordChars == Range(LowerLetters) \cup Range(UpperLetters) \cup Range(Digits) \cup {"_", "sz"}

\* str.lower()
Lower(s) == [i \in DOMAIN s |-> IF s[i] \in DOMAIN LowerMap THEN LowerMap[s[i]] ELSE s[i]]

\* str.upper() (the model upper-cases role names only, which hold no "sz")
Upper(s) == [i \in DOMAIN s |-> IF s[i] \in DOMAIN UpperMap THEN UpperMap[s[i]] ELSE s[i]]

SetMin(S) == CHOOSE m \in S : \A n \in S : m <= n

SetMax(S) == CHOOSE m \in S : \A n \in S : n <= m

\* str.strip()
Strip(s) ==
    LET idx == {i \in DOMAIN s : s[i] \notin Whitespace}
    IN  IF idx = {} THEN <<>> ELSE SubSeq(s, SetMin(idx), SetMax(idx))

\* s[i:].startswith(p), i counted from 1
StartsWithAt(s, i, p) ==
    /\ i + Len(p) - 1 <= Len(s)
    /\ \A k \in DOMAIN p : s[i + k - 1] = p[k]

\* str.startswith
StartsWith(s, p) == StartsWithAt(s, 1, p)

\* str.endswith
EndsWith(s, p) == Len(p) <= Len(s) /\ StartsWithAt(s, Len(s) - Len(p) + 1, p)

\* the Python operator `p in s` on strings
Contains(s, p) == \E i \in 1..(Len(s) + 1) : StartsWithAt(s, i, p)

RECURSIVE CollapseFrom(_, _)
CollapseFrom(s, i) ==
    IF i > Len(s) THEN <<>>
    ELSE IF s[i] \notin Whitespace THEN <<s[i]>> \o CollapseFrom(s, i + 1)
    ELSE IF i > 1 /\ s[i - 1] \in Whitespace THEN CollapseFrom(s, i + 1)
    ELSE <<" ">> \o CollapseFrom(s, i + 1)

\* re.sub(r"\s+", " ", s)
CollapseWhitespace(s) == CollapseFrom(s, 1)

RECURSIVE ReplaceFrom(_, _, _, _)
ReplaceFrom(s, i, old, new) ==
    IF i > Len(s) THEN <<>>
    ELSE IF StartsWithAt(s, i, old) THEN new \o ReplaceFrom(s, i + Len(old), old, new)
    ELSE <<s[i]>> \o ReplaceFrom(s, i + 1, old, new)

\* str.replace(old, new) for a non-empty old
Replace(s, old, new) == ReplaceFrom(s, 1, old, new)

RECURSIVE SplitFrom(_, _, _, _)
SplitFrom(s, i, sep, cur) ==
    IF i > Len(s) THEN <<cur>>
    ELSE IF StartsWithAt(s, i, sep) THEN <<cur>> \o SplitFrom(s, i + Len(sep), sep, <<>>)
    ELSE SplitFrom(s, i + 1, sep, Append(cur, s[i]))

\* str.split(sep) for a non-empty sep
Split(s, sep) == SplitFrom(s, 1, sep, <<>>)

RECURSIVE Join(_, _)
\* sep.join(parts)
Join(parts, sep) ==
    IF parts = <<>> THEN <<>>
    ELSE IF Len(parts) = 1 THEN parts[1]
    ELSE parts[1] \o sep \o Join(Tail(parts), sep)

RECURSIVE FindWordsFrom(_, _, _)
FindWordsFrom(s, i, cur) ==
    IF i > Len(s) THEN (IF cur = <<>> THEN <<>> ELSE <<cur>>)
    ELSE IF s[i] \in WordChars THEN FindWordsFrom(s, i + 1, Append(cur, s[i]))
    ELSE (IF cur = <<>> THEN <<>> ELSE <<cur>>) \o FindWordsFrom(s, i + 1, <<>>)

\* re.findall(r"\w+", s)
FindWords(s) == FindWordsFrom(s, 1, <<>>)

(***************************************************************************)
(* memory/memory_db.py: the two tables and their queries.  A table is the  *)
(* sequence of its rows in id order (id INTEGER PRIMARY KEY AUTOINCREMENT: *)
(* the id of a row is its index).                                          *)
(***************************************************************************)

ROLE_USER == <<"u", "s", "e", "r">>

ROLE_ASSISTANT == <<"a", "s", "s", "i", "s", "t", "a", "n", "t">>

\* datetime.isoformat() of the clock reading n: a fixed-width rendering, so
\* that the text order of two timestamps is their time order
Isoformat(n) == <<Digits[((n \div 10) % 10) + 1], Digits[(n % 10) + 1]>>

\* the row add_interaction inserts at clock reading now
InteractionRow(now, role, content, meta) ==
    [ts |-> Isoformat(now), role |-> role, content |-> content, meta |-> meta]

\* an insert that puts the new row before the rows of the table
add_interactionFirst(rows, now, role, content, meta) ==
    <<InteractionRow(now, role, content, meta)>> \o rows

\* INSERT INTO interactions (ts, role, content, meta) VALUES (?, ?, ?, ?)
add_interaction(rows, now, role, content, meta) ==
    Append(rows, InteractionRow(now, role, content, meta))

\* the row add_fact inserts at clock reading now
FactRow(now, source, fact, importance) ==
    [ts |-> Isoformat(now), source |-> source, fact |-> fact, importance |-> importance]

\* INSERT INTO facts (ts, source, fact, importance) VALUES (?, ?, ?, ?)
add_fact(rows, now, source, fact, importance) ==
    Append(rows, FactRow(now, source, fact, importance))

\* SELECT ... FROM interactions ORDER BY id DESC LIMIT ?  (limit >= 0)
get_recent_interactions(rows, limit) ==
    LET n == IF limit < Len(rows) THEN limit ELSE Len(rows)
    IN  [k \in 1..n |-> rows[Len(rows) - k + 1]]

\* the id that ORDER BY importance DESC, id puts first among ids
FirstByImportanceOldest(rows, ids) ==
    CHOOSE i \in ids : \A j \in ids :
        \/ rows[i].importance > rows[j].importance
        \/ rows[i].importance = rows[j].importance /\ i <= j

\* the id that ORDER BY importance DESC, id DESC puts first among ids
FirstByImportance(rows, ids) ==
    CHOOSE i \in ids : \A j \in ids :
        \/ rows[i].importance > rows[j].importance
        \/ rows[i].importance = rows[j].importance /\ i >= j

RECURSIVE OrderByImportance(_, _)
OrderByImportance(rows, ids) ==
    IF ids = {} THEN <<>>
    ELSE LET i == FirstByImportance(rows, ids)
         IN  <<i>> \o OrderByImportance(rows, ids \ {i})

\* the ids of the rows get_facts returns, in its order
FactIds(rows, minimum_importance) ==
    OrderByImportance(rows, {i \in DOMAIN rows : rows[i].importance >= minimum_importance})

\* SELECT ... FROM facts WHERE importance >= ? ORDER BY importance DESC, id DESC
\* (each Fact object carries the id of its row, which stands for its identity)
get_facts(rows, minimum_importance) ==
    LET ids == FactIds(rows, minimum_importance)
    IN  [k \in DOMAIN ids |->
            [id |-> ids[k], ts |-> rows[ids[k]].ts, source |-> rows[ids[k]].source,
             fact |-> rows[ids[k]].fact, importance |-> rows[ids[k]].importance]]

\* SELECT ... FROM interactions ORDER BY id, read into a list under the lock
iter_interactions(rows) == rows

(***************************************************************************)
(* memory/knowledge_builder.py                                             *)
(***************************************************************************)

\* _KEYWORD_HINTS.values() in the order of the dict
_KEYWORD_HINTS ==
    <<
        <<"C", "A", "D", "-", "F", "ae", "l", "l", "e", " ", "m", "ue", "s", "s", "e", "n",
          " ", "v", "o", "r", " ", "1", "0", " ", "U", "h", "r", " ", "g", "e", "m", "e", "l",
          "d", "e", "t", " ", "w", "e", "r", "d", "e", "n", ".">>,
        <<"T", "e", "c", "h", "n", "i", "k", "e", "r", "-", "M", "a", "i", "l", "s", " ", "a",
          "n", " ", "d", "k", "-", "t", "e", "c", "h", ".", "e", "u", " ", "e", "n", "t", "h",
          "a", "l", "t", "e", "n", " ", "o", "b", "l", "i", "g", "a", "t", "o", "r", "i", "s",
          "c", "h", "e", " ", "E", "i", "n", "s", "a", "t", "z", "d", "e", "t", "a", "i", "l",
          "s", ".">>,
        <<"D", "i", "s", "p", "a", "t", "c", "h", "-", "K", "o", "m", "m", "u", "n", "i", "k",
          "a", "t", "i", "o", "n", " ", "e", "r", "f", "o", "l", "g", "t", " ", "p", "r", "ae",
          "z", "i", "s", "e", " ", "u", "n", "d", " ", "m", "i", "t", " ", "k", "l", "a", "r",
          "e", "n", " ", "D", "e", "a", "d", "l", "i", "n", "e", "s", ".">>,
        <<"R", "e", "g", "e", "l", "m", "ae", "sz", "i", "g", "e", " ", "B", "a", "c", "k",
          "u", "p", "s", " ", "d", "e", "r", " ", "P", "r", "o", "j", "e", "k", "t", "d", "a",
          "t", "e", "n", " ", "s", "i", "n", "d", " ", "P", "f", "l", "i", "c", "h", "t", ".">>
    >>

_IMPORTANT_PHRASES ==
    { <<"m", "u", "s", "s">>, <<"m", "ue", "s", "s", "e", "n">>, <<"s", "o", "l", "l">>,
      <<"s", "o", "l", "l", "e", "n">>, <<"w", "i", "c", "h", "t", "i", "g">>,
      <<"i", "m", "m", "e", "r">> }

SOURCE_HEURISTIC == <<"h", "e", "u", "r", "i", "s", "t", "i", "c">>

\* f"interaction:{interaction.timestamp}"
InteractionSource(ts) == <<"i", "n", "t", "e", "r", "a", "c", "t", "i", "o", "n", ":">> \o ts

\* _normalise without .lower()
NormaliseKeepsCase(text) == CollapseWhitespace(Strip(text))

\* re.sub(r"\s+", " ", text.strip()).lower()
_normalise(text) == Lower(CollapseWhitespace(Strip(text)))

RECURSIVE SentenceSplitFrom(_, _, _)
SentenceSplitFrom(s, i, cur) ==
    IF i > Len(s) THEN <<cur>>
    ELSE IF s[i] \in {".", "!", "?"} /\ i < Len(s) /\ s[i + 1] \in Whitespace
         THEN LET rest == {j \in (i + 1)..Len(s) : s[j] \notin Whitespace}
                  next == IF rest = {} THEN Len(s) + 1 ELSE SetMin(rest)
              IN  <<cur>> \o SentenceSplitFrom(s, next, <<>>)
    ELSE SentenceSplitFrom(s, i + 1, Append(cur, s[i]))

\* _SENTENCE_SPLIT.split(message) with _SENTENCE_SPLIT = re.compile(r"[.!?]\s+")
_SENTENCE_SPLIT(message) == SentenceSplitFrom(message, 1, <<>>)

NonEmptyStripped(parts) ==
    SelectSeq([k \in DOMAIN parts |-> Strip(parts[k])], LAMBDA p : p # <<>>)

_extract_sentences(message) ==
    LET m == Strip(message)
        sentences == _SENTENCE_SPLIT(m)
    IN  IF m = <<>> THEN <<>>
        ELSE IF Len(sentences) = 1 THEN <<m>>
        ELSE NonEmptyStripped(sentences)

\* any(phrase in lower for phrase in _IMPORTANT_PHRASES)
IsImportant(sentence) ==
    LET lower == Lower(sentence)
    IN  \E phrase \in _IMPORTANT_PHRASES : Contains(lower, phrase)

\* the first loop without its phrase test: every sentence is a candidate
CandidatesOfEverySentence(interaction) ==
    LET sentences == _extract_sentences(interaction.content)
    IN  [k \in DOMAIN sentences |->
            [normalised |-> _normalise(sentences[k]),
             source |-> InteractionSource(interaction.ts),
             fact |-> Strip(sentences[k]),
             importance |-> 2]]

\* the sentences of one interaction that pass the phrase test, each as the
\* add_fact call the first loop of refresh_facts would make for it
InteractionCandidates(interaction) ==
    LET sentences == SelectSeq(_extract_sentences(interaction.content), IsImportant)
    IN  [k \in DOMAIN sentences |->
            [normalised |-> _normalise(sentences[k]),
             source |-> InteractionSource(interaction.ts),
             fact |-> Strip(sentences[k]),
             importance |-> 2]]

RECURSIVE ScanInteractions(_)
\* the first loop of refresh_facts over the list iter_interactions gave
ScanInteractions(rows) ==
    IF rows = <<>> THEN <<>>
    ELSE InteractionCandidates(Head(rows)) \o ScanInteractions(Tail(rows))

\* the second loop with the template itself as the key of the dedup index
KeywordCandidatesByTemplate ==
    [k \in DOMAIN _KEYWORD_HINTS |->
        [normalised |-> _KEYWORD_HINTS[k],
         source |-> SOURCE_HEURISTIC,
         fact |-> _KEYWORD_HINTS[k],
         importance |-> 1]]

\* the second loop of refresh_facts: one add_fact call for each seed
KeywordCandidates ==
    [k \in DOMAIN _KEYWORD_HINTS |->
        [normalised |-> _normalise(_KEYWORD_HINTS[k]),
         source |-> SOURCE_HEURISTIC,
         fact |-> _KEYWORD_HINTS[k],
         importance |-> 1]]

\* the dedup index keyed by the raw text of the stored facts
SeenRawText(fact_rows) ==
    LET existing == get_facts(fact_rows, 1)
    IN  {existing[k].fact : k \in DOMAIN existing}

\* seen_normalised = {_normalise(f.fact): f for f in self._db.get_facts()}
\* (the keys; the values are never read)
SeenNormalised(fact_rows) ==
    LET existing == get_facts(fact_rows, 1)
    IN  {_normalise(existing[k].fact) : k \in DOMAIN existing}

\* the candidates both loops still reach an add_fact call for, given the keys
\* of seen_normalised (`if normalised in seen_normalised: continue`)
Pending(candidates, seen) ==
    SelectSeq(candidates, LAMBDA c : c.normalised \notin seen)

\* Fact(timestamp="", source=..., fact=..., importance=...) appended to new_facts
StoredFact(c) == [source |-> c.source, fact |-> c.fact, importance |-> c.importance]

RECURSIVE RefreshLoop(_, _, _, _, _, _, _)
\* both loops of refresh_facts, run without another thread in between.  The
\* add_fact call number fail_at raises with the given outcome (fail_at = 0:
\* none raises); an exception of add_fact leaves refresh_facts at once.
RefreshLoop(todo, seen, fact_rows, new_facts, now, fail_at, outcome) ==
    LET pending == Pending(todo, seen)
    IN  IF pending = <<>>
        THEN [facts |-> fact_rows, new_facts |-> new_facts, raised |-> FALSE]
        ELSE LET c == Head(pending)
                 added == add_fact(fact_rows, now, c.source, c.fact, c.importance)
             IN  IF fail_at = 1
                 THEN [facts |-> IF outcome = "commit_fails" THEN added ELSE fact_rows,
                       new_facts |-> <<>>, raised |-> TRUE]
                 ELSE RefreshLoop(Tail(pending), seen \cup {c.normalised}, added,
                                  Append(new_facts, StoredFact(c)), now,
                                  IF fail_at = 0 THEN 0 ELSE fail_at - 1, outcome)

\* KnowledgeBuilder.refresh_facts as one uninterrupted run: the facts table
\* afterwards, the list it returns, and whether it raised instead
RefreshRun(fact_rows, interaction_rows, now, fail_at, outcome) ==
    RefreshLoop(ScanInteractions(iter_interactions(interaction_rows)) \o KeywordCandidates,
                SeenNormalised(fact_rows), fact_rows, <<>>, now, fail_at, outcome)

\* KnowledgeBuilder.refresh_facts with every add_fact succeeding
refresh_facts(fact_rows, interaction_rows, now) ==
    RefreshRun(fact_rows, interaction_rows, now, 0, "ok")

\* a score that counts the matching tokens and the source only
ScoreWithoutImportance(query_lower, fact) ==
    LET tokens == FindWords(Lower(fact.fact))
        hits == {k \in DOMAIN tokens : Contains(query_lower, tokens[k])}
    IN  2 * Cardinality(hits)
        + (IF StartsWith(fact.source, <<"i", "n", "t", "e", "r", "a", "c", "t", "i", "o", "n">>)
           THEN 1 ELSE 0)

\* the score get_relevant_facts gives one fact
Score(query_lower, fact) ==
    LET tokens == FindWords(Lower(fact.fact))
        hits == {k \in DOMAIN tokens : Contains(query_lower, tokens[k])}
    IN  2 * Cardinality(hits)
        + (IF StartsWith(fact.source, <<"i", "n", "t", "e", "r", "a", "c", "t", "i", "o", "n">>)
           THEN 1 ELSE 0)
        + fact.importance

\* scored: the (score, fact) pairs with a score that is not 0, in get_facts order
Scored(query, fact_rows) ==
    LET all == get_facts(fact_rows, 1)
        pairs == [k \in DOMAIN all |-> [score |-> Score(Lower(query), all[k]), fact |-> all[k]]]
    IN  SelectSeq(pairs, LAMBDA p : p.score # 0)

RECURSIVE SortAscending(_, _)
\* the sort without reverse=True
SortAscending(scored, left) ==
    IF left = {} THEN <<>>
    ELSE LET k == CHOOSE i \in left : \A j \in left :
                      \/ scored[i].score < scored[j].score
                      \/ scored[i].score = scored[j].score /\ i <= j
         IN  <<scored[k]>> \o SortAscending(scored, left \ {k})

RECURSIVE SortByScore(_, _)
\* scored.sort(key=lambda item: item[0], reverse=True): a stable sort, so
\* pairs of equal score keep their order
SortByScore(scored, left) ==
    IF left = {} THEN <<>>
    ELSE LET k == CHOOSE i \in left : \A j \in left :
                      \/ scored[i].score > scored[j].score
                      \/ scored[i].score = scored[j].score /\ i <= j
         IN  <<scored[k]>> \o SortByScore(scored, left \ {k})

\* the sorted list without the [:limit] slice
RankedAll(query, fact_rows, limit) ==
    LET scored == Scored(query, fact_rows)
    IN  SortByScore(scored, DOMAIN scored)

\* scored[:limit] after the sort (limit >= 0)
Ranked(query, fact_rows, limit) ==
    LET scored == Scored(query, fact_rows)
        sorted == SortByScore(scored, DOMAIN scored)
    IN  SubSeq(sorted, 1, IF limit < Len(sorted) THEN limit ELSE Len(sorted))

\* KnowledgeBuilder.get_relevant_facts
get_relevant_facts(query, fact_rows, limit) ==
    LET top == Ranked(query, fact_rows, limit)
    IN  [k \in DOMAIN top |-> top[k].fact.fact]

(***************************************************************************)
(* memory/style_profile.py                                                 *)
(***************************************************************************)

DEFAULT_GREETING == <<"H", "a", "l", "l", "o", " ", "z", "u", "s", "a", "m", "m", "e", "n">>

DEFAULT_CLOSING ==
    <<"V", "i", "e", "l", "e", " ", "G", "r", "ue", "sz", "e", "\n", "E", "r", "e", "n">>

\* the pass of the loop without its endswith test and the "." it appends
AdjustWithoutFullStop(para) ==
    Replace(Replace(para, <<"i", "c", "h", " ", "d", "e", "n", "k", "e">>,
                    <<"i", "c", "h", " ", "e", "m", "p", "f", "e", "h", "l", "e">>),
            <<"v", "i", "e", "l", "l", "e", "i", "c", "h", "t">>,
            <<"b", "i", "t", "t", "e">>)

\* the para of one pass of the loop of apply_style
AdjustParagraph(para) ==
    LET replaced == Replace(Replace(para, <<"i", "c", "h", " ", "d", "e", "n", "k", "e">>,
                                    <<"i", "c", "h", " ", "e", "m", "p", "f", "e", "h", "l", "e">>),
                            <<"v", "i", "e", "l", "l", "e", "i", "c", "h", "t">>,
                            <<"b", "i", "t", "t", "e">>)
    IN  IF \E e \in {".", "!", "?"} : EndsWith(replaced, <<e>>)
        THEN replaced ELSE Append(replaced, ".")

\* paragraphs = [p.strip() for p in body.split("\n\n") if p.strip()], and the
\* fallback of the next two lines
Paragraphs(body) ==
    LET paragraphs == NonEmptyStripped(Split(body, <<"\n", "\n">>))
    IN  IF paragraphs = <<>> THEN <<Replace(body, <<"\n">>, <<" ">>)>> ELSE paragraphs

\* apply_style with a result list that stops before the closing
StyleWithoutClosing(raw_text, profile) ==
    LET body == Strip(raw_text)
        paragraphs == Paragraphs(body)
        adjusted == [k \in DOMAIN paragraphs |-> AdjustParagraph(paragraphs[k])]
    IN  IF body = <<>> THEN profile.greeting \o <<"\n", "\n">> \o profile.closing
        ELSE Join(<<profile.greeting, <<>>>> \o adjusted, <<"\n">>)

apply_style(raw_text, profile) ==
    LET body == Strip(raw_text)
        paragraphs == Paragraphs(body)
        adjusted == [k \in DOMAIN paragraphs |-> AdjustParagraph(paragraphs[k])]
    IN  IF body = <<>> THEN profile.greeting \o <<"\n", "\n">> \o profile.closing
        ELSE Join(<<profile.greeting, <<>>>> \o adjusted \o <<<<>>, profile.closing>>, <<"\n">>)

(***************************************************************************)
(* core/router.py                                                          *)
(***************************************************************************)

\* limit=30 of the get_recent_interactions call of _load_context
CONTEXT_LIMIT == 30

\* limit: int = 5 of get_relevant_facts
DEFAULT_LIMIT == 5

\* f"{interaction.role.upper()} ({interaction.timestamp}): {interaction.content}"
FormatInteraction(interaction) ==
    Upper(interaction.role) \o <<" ", "(">> \o interaction.ts \o <<")", ":", " ">>
        \o interaction.content

\* recent as the query returns it, not reversed
NotReversed(s) == s

\* reversed(recent)
Reversed(s) == [k \in DOMAIN s |-> s[Len(s) - k + 1]]

\* AssistantRouter._load_context
_load_context(interaction_rows) ==
    LET recent == Reversed(get_recent_interactions(interaction_rows, CONTEXT_LIMIT))
    IN  [k \in DOMAIN recent |-> FormatInteraction(recent[k])]

(***************************************************************************)
(* The state.                                                              *)
(*   interactions, facts  the two tables of the shared connection          *)
(*   clock                the last reading of datetime.utcnow()            *)
(*   _context_cache       AssistantRouter._context_cache                   *)
(*   thr                  one worker thread per request (ui/app.py starts  *)
(*                        a thread for each request): its position in      *)
(*                        handle_text / handle_vision and its locals       *)
(*   faults               the failures injected so far                     *)
(*   args, result         the call under test and what it returned, in the *)
(*                        specifications that drive one function alone     *)
(*   _lock, committed     MemoryDB._lock (the thread that holds it, or 0)  *)
(*                        and the rows of both tables that are committed   *)
(*                        to the file, in the specification that takes the *)
(*                        steps of a store call one at a time              *)
(*   buttons, after_queue the state of the four buttons of KIKumpelApp and *)
(*                        the callbacks root.after(0, ...) has queued for  *)
(*                        the Tk main loop, in the specification of the    *)
(*                        window                                           *)
(***************************************************************************)
VARIABLES interactions, facts, clock, _context_cache, thr, faults, args, result,
          _lock, committed, buttons, after_queue

vars == <<interactions, facts, clock, _context_cache, thr, faults, args, result,
          _lock, committed, buttons, after_queue>>

\* the requests one run starts, each on its own thread
MaxRequests == 2

\* the persistence and model failures one run injects
MaxFaults == 1

Threads == 1..MaxRequests

\* the questions a user asks with handle_text: one that holds a signal phrase
\* and one that holds none
Questions ==
    { <<"c", "a", "d", " ", " ", "M", "U", "S", "S">>,
      <<"H", "i">> }

\* the questions a user asks about a screenshot, with handle_vision
VisionQuestions == { <<"c", "a", "d", " ", " ", "M", "U", "S", "S">> }

\* the answers of the model: response.choices[0].message.content or ""
Answers == { <<>>, <<"I", "m", "m", "e", "r", " ", "o", "k">> }

\* build_style_profile() with no sample file: the defaults
DefaultProfile == [greeting |-> DEFAULT_GREETING, closing |-> DEFAULT_CLOSING]

NoMeta == "None"

\* a thread that runs no request.  uid and aid are the ids of the rows its two
\* add_interaction calls inserted (cursor.lastrowid), facts0 is the number of
\* rows the facts table held when the request started; a local is emptied at
\* the step after which the code never reads it again
Idle ==
    [pc |-> "idle", kind |-> "none", question |-> <<>>, uid |-> 0, aid |-> 0, facts0 |-> 0,
     loaded |-> <<>>, seen |-> {}, todo |-> <<>>, new_facts |-> <<>>, facts |-> <<>>,
     sent |-> <<>>, answer |-> <<>>, styled |-> <<>>, raised |-> "none"]

\* args and result before a sequential driver has called anything
NoCall == [fn |-> "none"]

NoResult == [returned |-> FALSE, value |-> <<>>]

\* the rows self._conn.commit() writes to the file: all the connection holds
Commit(interaction_rows, fact_rows) ==
    [interactions |-> Len(interaction_rows), facts |-> Len(fact_rows)]

Init ==
    /\ interactions = <<>>
    /\ clock = 0
    /\ _context_cache = _load_context(<<>>)
    /\ facts = refresh_facts(<<>>, <<>>, 0).facts
    /\ thr = [t \in Threads |-> Idle]
    /\ faults = 0
    /\ _lock = 0
    /\ buttons = "normal"
    /\ after_queue = <<>>
    /\ committed = Commit(interactions, facts)
    /\ args = NoCall
    /\ result = NoResult

\* datetime.utcnow() read by add_interaction: within the resolution of the
\* clock the reading is the last one again, or it is a later one
Now == {clock, clock + 1}

\* datetime.utcnow() read after the model call returned: the network round
\* trip has taken longer than one tick of the clock
NowAfterModelCall == {clock + 1}

\* the exception leaves handle_text / handle_vision: the request is over and
\* its frame is gone
Raise(t, where) ==
    thr' = [thr EXCEPT ![t] = [Idle EXCEPT !.pc = "raised", !.raised = where,
                                           !.kind = thr[t].kind, !.uid = thr[t].uid,
                                           !.facts0 = thr[t].facts0]]

\* sqlite3 raises in execute (no row) or in commit (the row stays in the open
\* transaction of the shared connection, where every later query sees it)
PersistenceOutcomes == {"ok", "execute_fails", "commit_fails"}

CanFail(outcome) == outcome = "ok" \/ faults < MaxFaults

CountFault(outcome) == faults' = IF outcome = "ok" THEN faults ELSE faults + 1

\* self._record_interaction("user", question[, meta]): its add_interaction call
RecordUser(t, kind, question, now, outcome) ==
    /\ thr[t].pc = "idle"
    /\ \A u \in Threads : u < t => thr[u].pc # "idle"
    /\ CanFail(outcome)
    /\ CountFault(outcome)
    /\ clock' = now
    /\ interactions' = IF outcome = "execute_fails" THEN interactions
                       ELSE add_interaction(interactions, now, ROLE_USER, question,
                                            IF kind = "vision" THEN "vision" ELSE NoMeta)
    /\ IF outcome = "ok"
       THEN thr' = [thr EXCEPT ![t].pc = "load_user", ![t].kind = kind,
                               ![t].question = question, ![t].uid = Len(interactions'),
                               ![t].facts0 = Len(facts)]
       ELSE thr' = [thr EXCEPT ![t].pc = "raised", ![t].kind = kind,
                               ![t].raised = "add_interaction", ![t].facts0 = Len(facts)]
    /\ committed' = IF outcome = "ok" THEN Commit(interactions', facts) ELSE committed
    /\ UNCHANGED <<facts, _context_cache, args, result, _lock, buttons, after_queue>>

\* AssistantRouter.handle_text, up to the return of its first add_interaction
handle_text(t) ==
    \E q \in Questions, now \in Now, outcome \in PersistenceOutcomes :
        RecordUser(t, "text", q, now, outcome)

\* AssistantRouter.handle_vision, up to the return of its first add_interaction
handle_vision(t) ==
    \E q \in VisionQuestions, now \in Now, outcome \in PersistenceOutcomes :
        RecordUser(t, "vision", q, now, outcome)

\* _update_context: the call self._load_context()
LoadContext(t) ==
    /\ thr[t].pc \in {"load_user", "load_assistant"}
    /\ thr' = [thr EXCEPT ![t].loaded = _load_context(interactions),
                          ![t].pc = IF thr[t].pc = "load_user" THEN "set_user"
                                    ELSE "set_assistant"]
    /\ UNCHANGED <<interactions, facts, clock, _context_cache, faults, args, result, _lock, committed,
                   buttons, after_queue>>

\* _update_context that assigns the cache after the user turn only
UpdateContextOnce(t) ==
    /\ thr[t].pc \in {"set_user", "set_assistant"}
    /\ _context_cache' = IF thr[t].pc = "set_user" THEN thr[t].loaded ELSE _context_cache
    /\ thr' = [thr EXCEPT ![t].loaded = <<>>,
                          ![t].pc = IF thr[t].pc = "set_user" THEN "refresh" ELSE "done"]
    /\ UNCHANGED <<interactions, facts, clock, faults, args, result, _lock, committed, buttons, after_queue>>

\* _update_context: the assignment to self._context_cache; after the
\* assistant turn the request returns styled
UpdateContext(t) ==
    /\ thr[t].pc \in {"set_user", "set_assistant"}
    /\ _context_cache' = thr[t].loaded
    /\ thr' = [thr EXCEPT ![t].loaded = <<>>,
                          ![t].pc = IF thr[t].pc = "set_user" THEN "refresh" ELSE "done"]
    /\ UNCHANGED <<interactions, facts, clock, faults, args, result, _lock, committed, buttons, after_queue>>

\* refresh_facts: seen_normalised = {...self._db.get_facts()}; new_facts = []
RefreshGetFacts(t) ==
    /\ thr[t].pc = "refresh"
    /\ thr' = [thr EXCEPT ![t].seen = SeenNormalised(facts), ![t].new_facts = <<>>,
                          ![t].pc = "scan"]
    /\ UNCHANGED <<interactions, facts, clock, _context_cache, faults, args, result, _lock, committed,
                   buttons, after_queue>>

\* where refresh_facts goes with these candidates left: to its next add_fact,
\* or out of both loops and on to get_relevant_facts
AfterScan(todo) == IF todo = <<>> THEN "rank" ELSE "add_fact"

\* refresh_facts: the list iter_interactions reads, and the loops up to the
\* first add_fact call
RefreshIterInteractions(t) ==
    /\ thr[t].pc = "scan"
    /\ \E todo \in {Pending(ScanInteractions(iter_interactions(interactions))
                                  \o KeywordCandidates, thr[t].seen)} :
           thr' = [thr EXCEPT ![t].todo = todo, ![t].pc = AfterScan(todo)]
    /\ UNCHANGED <<interactions, facts, clock, _context_cache, faults, args, result, _lock, committed,
                   buttons, after_queue>>

\* refresh_facts: one add_fact call, and the loops up to the next one
RefreshAddFact(t) ==
    /\ thr[t].pc = "add_fact"
    /\ \E outcome \in PersistenceOutcomes :
        LET c == Head(thr[t].todo)
            seen == thr[t].seen \cup {c.normalised}
            todo == Pending(Tail(thr[t].todo), seen)
        IN  /\ CanFail(outcome)
            /\ CountFault(outcome)
            /\ facts' = IF outcome = "execute_fails" THEN facts
                        ELSE add_fact(facts, clock, c.source, c.fact, c.importance)
            /\ IF outcome = "ok"
               THEN thr' = [thr EXCEPT ![t].seen = seen, ![t].todo = todo,
                                       ![t].new_facts = Append(@, StoredFact(c)),
                                       ![t].pc = AfterScan(todo)]
               ELSE Raise(t, "add_fact")
            /\ committed' = IF outcome = "ok" THEN Commit(interactions, facts') ELSE committed
    /\ UNCHANGED <<interactions, clock, _context_cache, args, result, _lock, buttons, after_queue>>

\* _gather_facts: return self.knowledge.get_relevant_facts(query)
RankFacts(t) ==
    /\ thr[t].pc = "rank"
    /\ thr' = [thr EXCEPT ![t].facts = get_relevant_facts(thr[t].question, facts, DEFAULT_LIMIT),
                          ![t].seen = {}, ![t].todo = <<>>, ![t].new_facts = <<>>,
                          ![t].pc = "ask"]
    /\ UNCHANGED <<interactions, facts, clock, _context_cache, faults, args, result, _lock, committed,
                   buttons, after_queue>>

\* a model call that also appends the question it sends to the interactions
AskModelLogged(t) ==
    /\ thr[t].pc = "ask"
    /\ thr' = [thr EXCEPT ![t].sent = _context_cache, ![t].pc = "await"]
    /\ interactions' = add_interaction(interactions, clock, ROLE_USER, thr[t].question, NoMeta)
    /\ committed' = Commit(interactions', facts)
    /\ UNCHANGED <<facts, clock, _context_cache, faults, args, result, _lock, buttons, after_queue>>

\* self.llm.ask_text / ask_vision is called with context_messages =
\* self._context_cache and facts = facts
AskModel(t) ==
    /\ thr[t].pc = "ask"
    /\ thr' = [thr EXCEPT ![t].sent = _context_cache, ![t].pc = "await"]
    /\ UNCHANGED <<interactions, facts, clock, _context_cache, faults, args, result, _lock, committed,
                   buttons, after_queue>>

\* the model call returns; styled = apply_style(answer, self.style_profile)
ModelAnswers(t) ==
    /\ thr[t].pc = "await"
    /\ \E answer \in Answers :
        thr' = [thr EXCEPT ![t].answer = answer,
                           ![t].styled = apply_style(answer, DefaultProfile),
                           ![t].question = <<>>, ![t].facts = <<>>, ![t].sent = <<>>,
                           ![t].pc = "record_assistant"]
    /\ UNCHANGED <<interactions, facts, clock, _context_cache, faults, args, result, _lock, committed,
                   buttons, after_queue>>

\* the model call raises (network error, timeout, malformed response)
ModelFails(t) ==
    /\ thr[t].pc = "await"
    /\ faults < MaxFaults
    /\ faults' = faults + 1
    /\ Raise(t, "llm")
    /\ UNCHANGED <<interactions, facts, clock, _context_cache, args, result, _lock, committed,
                   buttons, after_queue>>

\* the assistant turn recorded with answer in the place of styled
RecordAssistantRaw(t) ==
    /\ thr[t].pc = "record_assistant"
    /\ \E now \in NowAfterModelCall, outcome \in PersistenceOutcomes :
        /\ CanFail(outcome)
        /\ CountFault(outcome)
        /\ clock' = now
        /\ interactions' = IF outcome = "execute_fails" THEN interactions
                           ELSE add_interaction(interactions, now, ROLE_ASSISTANT, thr[t].answer,
                                                IF thr[t].kind = "vision" THEN "vision" ELSE NoMeta)
        /\ IF outcome = "ok"
           THEN thr' = [thr EXCEPT ![t].pc = "load_assistant", ![t].answer = <<>>,
                                   ![t].aid = Len(interactions')]
           ELSE Raise(t, "add_interaction")
        /\ committed' = IF outcome = "ok" THEN Commit(interactions', facts) ELSE committed
    /\ UNCHANGED <<facts, _context_cache, args, result, _lock, buttons, after_queue>>

\* self._record_interaction("assistant", styled[, meta]): its add_interaction call
RecordAssistant(t) ==
    /\ thr[t].pc = "record_assistant"
    /\ \E now \in NowAfterModelCall, outcome \in PersistenceOutcomes :
        /\ CanFail(outcome)
        /\ CountFault(outcome)
        /\ clock' = now
        /\ interactions' = IF outcome = "execute_fails" THEN interactions
                           ELSE add_interaction(interactions, now, ROLE_ASSISTANT, thr[t].styled,
                                                IF thr[t].kind = "vision" THEN "vision" ELSE NoMeta)
        /\ IF outcome = "ok"
           THEN thr' = [thr EXCEPT ![t].pc = "load_assistant", ![t].answer = <<>>,
                                   ![t].aid = Len(interactions')]
           ELSE Raise(t, "add_interaction")
        /\ committed' = IF outcome = "ok" THEN Commit(interactions', facts) ELSE committed
    /\ UNCHANGED <<facts, _context_cache, args, result, _lock, buttons, after_queue>>

Next ==
    \E t \in Threads :
        \/ handle_text(t)
        \/ handle_vision(t)
        \/ LoadContext(t)
        \/ UpdateContext(t)
        \/ RefreshGetFacts(t)
        \/ RefreshIterInteractions(t)
        \/ RefreshAddFact(t)
        \/ RankFacts(t)
        \/ AskModel(t)
        \/ ModelAnswers(t)
        \/ ModelFails(t)
        \/ RecordAssistant(t)

Spec == Init /\ [][Next]_vars

(***************************************************************************)
(* Claims about concurrent requests on one router, checked under Spec.     *)
(***************************************************************************)

\* C1: in every reachable state of the fact store, also when two requests run
\* refresh_facts at the same time on one router, no two stored facts have the
\* same normalised text.
C1_NoTwoFactsWithSameNormalisedText ==
    \A i, j \in DOMAIN facts :
        i # j => _normalise(facts[i].fact) # _normalise(facts[j].fact)

\* the request of thread t ended because its model call raised
ModelCallFailed(t) == thr[t].pc = "raised" /\ thr[t].raised = "llm"

\* C2: a request whose model call failed has still recorded an assistant turn
\* after its user turn (the styled error text) before it ended.
C2_FailedModelCallIsRecorded ==
    \A t \in Threads :
        ModelCallFailed(t) =>
            /\ thr[t].aid > thr[t].uid
            /\ interactions[thr[t].aid].role = ROLE_ASSISTANT

\* C3: the context a request passes to the model call holds the formatted
\* line of that request's own user turn, as long as fewer than 30
\* interactions were appended after that turn.
C3_ModelCallSeesOwnUserTurn ==
    \A t \in Threads :
        (thr[t].pc = "await" /\ Len(interactions) - thr[t].uid < CONTEXT_LIMIT) =>
            \E k \in DOMAIN thr[t].sent :
                thr[t].sent[k] = FormatInteraction(interactions[thr[t].uid])

\* C6: no request ever ends because add_interaction raised: a persistence
\* error of add_interaction does not reach the caller.
C6_AddInteractionNeverFailsCaller ==
    \A t \in Threads : ~(thr[t].pc = "raised" /\ thr[t].raised = "add_interaction")

\* C7: no request ever ends because an add_fact call of refresh_facts raised:
\* refresh_facts does not raise to its caller.
C7_RefreshFactsNeverRaises ==
    \A t \in Threads : ~(thr[t].pc = "raised" /\ thr[t].raised = "add_fact")

\* the steps of one request in their order: user turn persisted, context
\* reloaded, refresh_facts, get_relevant_facts, model call, apply_style,
\* assistant turn persisted, context reloaded, styled answer returned
RequestOrder ==
    { <<"idle", "load_user">>, <<"load_user", "set_user">>, <<"set_user", "refresh">>,
      <<"refresh", "scan">>, <<"scan", "add_fact">>, <<"scan", "rank">>,
      <<"add_fact", "rank">>, <<"rank", "ask">>, <<"ask", "await">>,
      <<"await", "record_assistant">>, <<"record_assistant", "load_assistant">>,
      <<"load_assistant", "set_assistant">>, <<"set_assistant", "done">> }

\* the places where a request ends before its model call has returned
EndsBeforeModelReturns == {"idle", "add_fact", "await"}

\* C12: every step of a request is the next step of the fixed order, and a
\* request whose model call has returned skips none of the steps that follow
\* (it does not end before it has persisted the assistant turn, reloaded the
\* context and returned the styled answer).
C12_StepsInFixedOrder ==
    [][\A t \in Threads :
          thr'[t].pc # thr[t].pc =>
              \/ <<thr[t].pc, thr'[t].pc>> \in RequestOrder
              \/ thr'[t].pc = "raised" /\ thr[t].pc \in EndsBeforeModelReturns]_vars

\* C13: the assistant row a request appended holds the styled answer, which
\* is apply_style of an answer of the model and is what the request returns
\* (styled); no assistant row holds a raw answer of the model.
C13_AssistantTurnIsStyledAnswer ==
    /\ \A t \in Threads :
          thr[t].aid > 0 =>
              /\ interactions[thr[t].aid].role = ROLE_ASSISTANT
              /\ interactions[thr[t].aid].content = thr[t].styled
              /\ \E answer \in Answers : thr[t].styled = apply_style(answer, DefaultProfile)
    /\ \A i \in DOMAIN interactions :
          interactions[i].role = ROLE_ASSISTANT => interactions[i].content \notin Answers

\* a request that returned the styled form of a non-empty answer
C13_Witness ==
    /\ thr[1].pc = "done"
    /\ thr[1].aid > 0
    /\ interactions[thr[1].aid].content =
          apply_style(<<"I", "m", "m", "e", "r", " ", "o", "k">>, DefaultProfile)

\* table before is the beginning of table after, row for row
GrownFrom(before, after) ==
    /\ Len(before) <= Len(after)
    /\ SubSeq(after, 1, Len(before)) = before

\* C17: both tables are append-only: every step leaves each row of the
\* interactions and of the facts table as it was (a fact keeps its importance)
\* and adds rows at the end only.
C17_TablesAppendOnly ==
    [][GrownFrom(interactions, interactions') /\ GrownFrom(facts, facts')]_vars

\* both tables have grown: two interactions and a derived fact
C17_Witness ==
    /\ Len(interactions) >= 2
    /\ Len(facts) > Len(_KEYWORD_HINTS)
    /\ \E t \in Threads : thr[t].pc = "done"

(***************************************************************************)
(* SpecSeq: one caller at a time on the store and the KnowledgeBuilder of  *)
(* a fresh router.  args names the last call and the call before it,       *)
(* result is what the last call returned.                                  *)
(***************************************************************************)

\* the interactions the sequential caller appends
MaxSeqRows == 2

\* contents appended: a signal sentence, the same in another case and with
\* other whitespace runs, a text of three sentences, a text with no signal
SeqContents ==
    { <<"c", "a", "d", " ", " ", "M", "U", "S", "S">>,
      <<"C", "A", "D", " ", "m", "u", "s", "s">>,
      <<"H", "i", ".", " ", "E", "s", " ", "S", "O", "L", "L", "!", "\n", "o", "k">>,
      <<"H", "i">> }

\* the call before the one in args, as args remembers it
LastCall == [fn |-> args.fn, returned |-> result.returned, inserted |-> Len(result.value)]

\* the turns alternate, as the router records them
SeqRole == IF Len(interactions) % 2 = 0 THEN ROLE_USER ELSE ROLE_ASSISTANT

SeqAddInteraction ==
    /\ Len(interactions) < MaxSeqRows
    /\ \E content \in SeqContents, now \in Now :
        /\ interactions' = add_interaction(interactions, now, SeqRole, content, NoMeta)
        /\ clock' = now
    /\ args' = [fn |-> "add_interaction"]
    /\ result' = NoResult
    /\ committed' = Commit(interactions', facts)
    /\ UNCHANGED <<facts, _context_cache, thr, faults, _lock, buttons, after_queue>>

\* the add_fact calls of a run whose commit succeeded
SeqCommits(run, outcome) ==
    Len(run.facts) - Len(facts) - (IF outcome = "commit_fails" THEN 1 ELSE 0)

\* refresh_facts() called and left by return or by an exception of add_fact
SeqRefreshFacts ==
    \E calls \in {Len(refresh_facts(facts, interactions, clock).new_facts)} :
    \E fail_at \in 0..calls, outcome \in PersistenceOutcomes :
        /\ (fail_at = 0) = (outcome = "ok")
        /\ CanFail(outcome)
        /\ CountFault(outcome)
        /\ \E run \in {RefreshRun(facts, interactions, clock, fail_at, outcome)} :
            /\ facts' = run.facts
            /\ args' = [fn |-> "refresh_facts", before |-> LastCall,
                        facts_before |-> Len(facts)]
            /\ result' = [returned |-> ~run.raised, value |-> run.new_facts]
            /\ committed' = IF SeqCommits(run, outcome) = 0 THEN committed
                            ELSE Commit(interactions,
                                        SubSeq(run.facts, 1, Len(facts) + SeqCommits(run, outcome)))
            /\ UNCHANGED <<interactions, clock, _context_cache, thr, _lock, buttons, after_queue>>

NextSeq == SeqAddInteraction \/ SeqRefreshFacts

SpecSeq == Init /\ [][NextSeq]_vars

\* the rows a refresh_facts call inserted, as the Fact objects it builds
InsertedSince(n) ==
    [k \in 1..(Len(facts) - n) |-> StoredFact(facts[n + k])]

\* C4: a refresh_facts run that follows a refresh_facts run which returned,
\* with no interaction added in between, inserts no fact row and returns the
\* empty list; the list a run returns holds exactly the facts it inserted.
C4_RefreshTwiceInsertsNothing ==
    args.fn = "refresh_facts" =>
        /\ (args.before.fn = "refresh_facts" /\ args.before.returned) =>
              /\ result.returned
              /\ result.value = <<>>
              /\ Len(facts) = args.facts_before
        /\ result.returned => result.value = InsertedSince(args.facts_before)

\* a second run right after a run that inserted a derived fact
C4_Witness ==
    /\ args.fn = "refresh_facts"
    /\ args.before.fn = "refresh_facts"
    /\ args.before.returned
    /\ args.before.inserted > 0
    /\ result.returned

\* two salient sentences that differ in letter case and in a whitespace run
SALIENT == <<"c", "a", "d", " ", " ", "M", "U", "S", "S">>

SALIENT_AGAIN == <<"C", "A", "D", " ", "m", "u", "s", "s">>

\* the log holds the two sentences, in either order, and refresh_facts has
\* run and returned
TwoVariantsRefreshed ==
    /\ args.fn = "refresh_facts"
    /\ result.returned
    /\ Len(interactions) = 2
    /\ {interactions[1].content, interactions[2].content} = {SALIENT, SALIENT_AGAIN}

\* C16: when the log holds two salient sentences that differ only in letter
\* case and whitespace runs, refresh_facts has stored exactly one fact for
\* them, the sentence of the interaction inserted first.
C16_OneFactForCaseAndWhitespaceVariants ==
    TwoVariantsRefreshed =>
        LET stored == {k \in DOMAIN facts : facts[k].fact \in {SALIENT, SALIENT_AGAIN}}
        IN  /\ Cardinality(stored) = 1
            /\ \A k \in stored : facts[k].fact = interactions[1].content

\* one run that met both sentences and stored one fact
C16_Witness ==
    /\ TwoVariantsRefreshed
    /\ args.facts_before = Len(_KEYWORD_HINTS)
    /\ Len(result.value) = 1
    /\ interactions[1].content = SALIENT_AGAIN

(***************************************************************************)
(* SpecStore: _load_context and get_recent_interactions called on a router *)
(* whose database file already holds a log of any length up to MaxLog.     *)
(***************************************************************************)

\* the longest log the database holds when the router is built
MaxLog == 32

\* row k of a stored log: turns alternate, two neighbours share a timestamp
\* (shift says which), and the content tells the rows apart
StoredRow(k, shift) ==
    [ts |-> Isoformat((k + shift) \div 2),
     role |-> IF k % 2 = 1 THEN ROLE_USER ELSE ROLE_ASSISTANT,
     content |-> <<"n", "r", " ">> \o Isoformat(k),
     meta |-> NoMeta]

InitStore ==
    /\ \E n \in 0..MaxLog, shift \in 0..1 :
        /\ interactions = [k \in 1..n |-> StoredRow(k, shift)]
        /\ clock = (n + shift) \div 2
    /\ _context_cache = _load_context(interactions)
    /\ facts = refresh_facts(<<>>, interactions, clock).facts
    /\ thr = [t \in Threads |-> Idle]
    /\ faults = 0
    /\ _lock = 0
    /\ buttons = "normal"
    /\ after_queue = <<>>
    /\ committed = Commit(interactions, facts)
    /\ args = NoCall
    /\ result = NoResult

\* the limits get_recent_interactions is called with
RecentLimits == {0, 1, 2, CONTEXT_LIMIT}

StoreGetRecent ==
    /\ \E limit \in RecentLimits :
        /\ args' = [fn |-> "get_recent_interactions", limit |-> limit]
        /\ result' = [returned |-> TRUE,
                      value |-> get_recent_interactions(interactions, limit)]
    /\ UNCHANGED <<interactions, facts, clock, _context_cache, thr, faults, _lock, committed,
                   buttons, after_queue>>

StoreLoadContext ==
    /\ args' = [fn |-> "_load_context"]
    /\ result' = [returned |-> TRUE, value |-> _load_context(interactions)]
    /\ UNCHANGED <<interactions, facts, clock, _context_cache, thr, faults, _lock, committed,
                   buttons, after_queue>>

NextStore == StoreGetRecent \/ StoreLoadContext

SpecStore == InitStore /\ [][NextStore]_vars

Smaller(a, b) == IF a < b THEN a ELSE b

\* "<ROLE in upper case> (<timestamp>): <content>"
ContextLine(row) ==
    Upper(row.role) \o <<" ", "(">> \o row.ts \o <<")", ":", " ">> \o row.content

\* C10: _load_context returns one line for each of the min(30, n) rows
\* inserted last, the oldest of them first and the newest last, each
\* "<ROLE> (<timestamp>): <content>"; get_recent_interactions(limit) returns
\* the min(limit, n) rows inserted last, the newest first.
C10_ContextIsChronologicalWindow ==
    LET n == Len(interactions)
    IN  /\ args.fn = "_load_context" =>
              LET w == Smaller(30, n)
              IN  /\ Len(result.value) = w
                  /\ \A k \in 1..w :
                        result.value[k] = ContextLine(interactions[n - w + k])
        /\ args.fn = "get_recent_interactions" =>
              /\ Len(result.value) = Smaller(args.limit, n)
              /\ \A k \in DOMAIN result.value :
                    result.value[k] = interactions[n - k + 1]

\* a context loaded from a log of more than 30 rows
C10_Witness ==
    /\ args.fn = "_load_context"
    /\ Len(interactions) > 30
    /\ Len(result.value) = 30

(***************************************************************************)
(* SpecRank: get_relevant_facts called on any facts table add_fact can     *)
(* build from a few texts, and called again after the importance of one    *)
(* row has been raised.                                                    *)
(***************************************************************************)

\* the rows of the facts table
MaxFacts == 2

\* the largest importance of a row
MaxImportance == 2

CAD_FACT == _KEYWORD_HINTS[1]

\* "Dispatch-Kommunikation erfolgt praezise."
DISPATCH_FACT ==
    <<"D", "i", "s", "p", "a", "t", "c", "h", "-", "K", "o", "m", "m", "u", "n", "i", "k",
      "a", "t", "i", "o", "n", " ", "e", "r", "f", "o", "l", "g", "t", " ", "p", "r", "ae",
      "z", "i", "s", "e", ".">>

CAD_QUERY == <<"C", "A", "D">>

RankFactRows ==
    { FactRow(0, source, fact, importance) :
        source \in {SOURCE_HEURISTIC, InteractionSource(Isoformat(1))},
        fact \in {CAD_FACT, DISPATCH_FACT},
        importance \in 0..MaxImportance }

RankQueries == { CAD_QUERY, <<"H", "i">> }

RankLimits == {1, DEFAULT_LIMIT}

InitRank ==
    /\ \E n \in 0..MaxFacts : facts \in [1..n -> RankFactRows]
    /\ interactions = <<>>
    /\ clock = 0
    /\ _context_cache = _load_context(<<>>)
    /\ thr = [t \in Threads |-> Idle]
    /\ faults = 0
    /\ _lock = 0
    /\ buttons = "normal"
    /\ after_queue = <<>>
    /\ committed = Commit(interactions, facts)
    /\ args = NoCall
    /\ result = NoResult

\* the ids of the rows behind the texts get_relevant_facts returns
RankedIds(query, fact_rows, limit) ==
    LET top == Ranked(query, fact_rows, limit)
    IN  [k \in DOMAIN top |-> top[k].fact.id]

RankCall ==
    /\ args = NoCall
    /\ \E query \in RankQueries, limit \in RankLimits :
        /\ args' = [fn |-> "get_relevant_facts", query |-> query, limit |-> limit,
                    ids |-> RankedIds(query, facts, limit), calls |-> 1, before |-> <<>>]
        /\ result' = [returned |-> TRUE,
                      value |-> get_relevant_facts(query, facts, limit)]
    /\ UNCHANGED <<interactions, facts, clock, _context_cache, thr, faults, _lock, committed,
                   buttons, after_queue>>

\* the call of RankCall made once more, on the table as the first call left it
RankCallAgain ==
    /\ args.fn = "get_relevant_facts"
    /\ args.calls = 1
    /\ args' = [args EXCEPT !.ids = RankedIds(args.query, facts, args.limit),
                            !.calls = 2, !.before = result.value]
    /\ result' = [returned |-> TRUE,
                  value |-> get_relevant_facts(args.query, facts, args.limit)]
    /\ UNCHANGED <<interactions, facts, clock, _context_cache, thr, faults, _lock, committed,
                   buttons, after_queue>>

\* get_facts(minimum_importance) on the table
RankGetFacts ==
    /\ args = NoCall
    /\ \E minimum_importance \in 0..(MaxImportance + 1) :
        /\ args' = [fn |-> "get_facts", minimum_importance |-> minimum_importance]
        /\ result' = [returned |-> TRUE, value |-> get_facts(facts, minimum_importance)]
    /\ UNCHANGED <<interactions, facts, clock, _context_cache, thr, faults, _lock, committed,
                   buttons, after_queue>>

\* the same query on the table before and after the importance of row id
\* has been raised, every other row and field the same
RankRaised ==
    /\ args = NoCall
    /\ \E query \in RankQueries, limit \in RankLimits, id \in DOMAIN facts,
          importance \in 0..MaxImportance :
        /\ importance > facts[id].importance
        /\ facts' = [facts EXCEPT ![id].importance = importance]
        /\ args' = [fn |-> "raise_importance", query |-> query, limit |-> limit,
                    id |-> id, before |-> RankedIds(query, facts, limit)]
        /\ result' = [returned |-> TRUE, value |-> RankedIds(query, facts', limit)]
    /\ UNCHANGED <<interactions, clock, _context_cache, thr, faults, _lock, committed, buttons, after_queue>>

\* get_relevant_facts up to its sort: the list scored, each pair with the id
\* of the row of its fact
RankScored ==
    /\ args = NoCall
    /\ \E query \in RankQueries :
        /\ args' = [fn |-> "scored", query |-> query]
        /\ result' = [returned |-> TRUE, value |-> Scored(query, facts)]
    /\ UNCHANGED <<interactions, facts, clock, _context_cache, thr, faults, _lock, committed,
                   buttons, after_queue>>

NextRank == RankCall \/ RankCallAgain \/ RankRaised \/ RankGetFacts \/ RankScored

SpecRank == InitRank /\ [][NextRank]_vars

\* the position of id in a list of ids that holds it
Position(ids, id) == CHOOSE k \in DOMAIN ids : ids[k] = id

\* the facts table of the scenario: exactly the two heuristic facts
ScenarioTable ==
    /\ Len(facts) = 2
    /\ {facts[1].fact, facts[2].fact} = {CAD_FACT, DISPATCH_FACT}
    /\ \A i \in DOMAIN facts :
        facts[i].importance = 1 /\ facts[i].source = SOURCE_HEURISTIC

ScenarioCall ==
    /\ ScenarioTable
    /\ args.fn = "get_relevant_facts"
    /\ args.query = CAD_QUERY
    /\ args.limit = DEFAULT_LIMIT

\* C5: for the query "CAD" on the two heuristic facts the CAD fact comes
\* first and the Dispatch fact, which shares no token with the query, is not
\* returned.
C5_DispatchFactExcluded ==
    ScenarioCall =>
        /\ result.value # <<>>
        /\ result.value[1] = CAD_FACT
        /\ DISPATCH_FACT \notin Range(result.value)

\* C8: raising the importance of one fact, all else equal, never moves it to
\* a later position of the result and never removes it from the result.
C8_RaisedImportanceKeepsRank ==
    (args.fn = "raise_importance" /\ args.id \in Range(args.before)) =>
        /\ args.id \in Range(result.value)
        /\ Position(result.value, args.id) <= Position(args.before, args.id)

\* a raise that moved the fact to an earlier position
C8_Witness ==
    /\ args.fn = "raise_importance"
    /\ args.id \in Range(args.before)
    /\ args.id \in Range(result.value)
    /\ Position(result.value, args.id) < Position(args.before, args.id)

(***************************************************************************)
(* SpecStyle: apply_style called on texts put together from a few pieces,  *)
(* with several profiles.                                                  *)
(***************************************************************************)

\* the pieces a raw text is put together from
MaxPieces == 4

StylePieces ==
    { <<"a">>, <<" ">>, <<"\n">>, <<"?">>,
      <<"i", "c", "h", " ", "d", "e", "n", "k", "e">>,
      <<"v", "i", "e", "l", "l", "e", "i", "c", "h", "t">> }

StyleProfiles ==
    { DefaultProfile,
      [greeting |-> <<"H", "i", ",">>, closing |-> <<>>],
      [greeting |-> <<>>, closing |-> <<"\n", "E", ".", " ">>] }

RECURSIVE Concat(_)
Concat(pieces) == IF pieces = <<>> THEN <<>> ELSE Head(pieces) \o Concat(Tail(pieces))

InitStyle ==
    /\ \E n \in 0..MaxPieces, profile \in StyleProfiles :
        \E pieces \in [1..n -> StylePieces] :
            args = [fn |-> "apply_style", raw_text |-> Concat(pieces), profile |-> profile]
    /\ result = NoResult
    /\ interactions = <<>>
    /\ facts = <<>>
    /\ clock = 0
    /\ _context_cache = <<>>
    /\ thr = [t \in Threads |-> Idle]
    /\ faults = 0
    /\ _lock = 0
    /\ buttons = "normal"
    /\ after_queue = <<>>
    /\ committed = Commit(interactions, facts)

StyleCall ==
    /\ ~result.returned
    /\ result' = [returned |-> TRUE, value |-> apply_style(args.raw_text, args.profile)]
    /\ UNCHANGED <<interactions, facts, clock, _context_cache, thr, faults, args, _lock, committed,
                   buttons, after_queue>>

NextStyle == StyleCall

SpecStyle == InitStyle /\ [][NextStyle]_vars

\* C9: for every non-empty text and every profile the output of apply_style
\* starts with profile.greeting and ends with profile.closing.
C9_StartsWithGreetingEndsWithClosing ==
    (result.returned /\ args.raw_text # <<>>) =>
        /\ StartsWith(result.value, args.profile.greeting)
        /\ EndsWith(result.value, args.profile.closing)

\* a styled text whose paragraph was reworded and given its full stop
C9_Witness ==
    /\ result.returned
    /\ args.profile = DefaultProfile
    /\ args.raw_text = <<"i", "c", "h", " ", "d", "e", "n", "k", "e", " ", "a">>
    /\ result.value =
          DEFAULT_GREETING \o <<"\n", "\n">>
          \o <<"i", "c", "h", " ", "e", "m", "p", "f", "e", "h", "l", "e", " ", "a", ".">>
          \o <<"\n", "\n">> \o DEFAULT_CLOSING

(***************************************************************************)
(* SpecOne: the requests of Spec handled one at a time: a request starts   *)
(* only when every request before it has returned or raised.               *)
(***************************************************************************)

\* no request other than that of thread t is under way
Alone(t) == \A u \in Threads \ {t} : thr[u].pc \in {"idle", "done", "raised"}

NextOne ==
    \E t \in Threads :
        \/ Alone(t) /\ handle_text(t)
        \/ Alone(t) /\ handle_vision(t)
        \/ Alone(t) /\ LoadContext(t)
        \/ Alone(t) /\ UpdateContext(t)
        \/ Alone(t) /\ RefreshGetFacts(t)
        \/ Alone(t) /\ RefreshIterInteractions(t)
        \/ Alone(t) /\ RefreshAddFact(t)
        \/ Alone(t) /\ RankFacts(t)
        \/ Alone(t) /\ AskModel(t)
        \/ Alone(t) /\ ModelAnswers(t)
        \/ Alone(t) /\ ModelFails(t)
        \/ Alone(t) /\ RecordAssistant(t)

SpecOne == Init /\ [][NextOne]_vars

\* C11: with requests handled one at a time, at the step that makes the model
\* call and at the step that returns from handle_text / handle_vision,
\* _context_cache is the formatted window of the 30 newest interactions in
\* the store (and the model call is passed that window).
C11_CacheFreshAtRequestBoundaries ==
    [][\A t \in Threads :
          /\ (thr[t].pc # "await" /\ thr'[t].pc = "await") =>
                /\ _context_cache' = _load_context(interactions')
                /\ thr'[t].sent = _load_context(interactions')
          /\ (thr[t].pc # "done" /\ thr'[t].pc = "done") =>
                _context_cache' = _load_context(interactions')]_vars

\* a request that returned after the request before it had left its
\* assistant turn in the store and raised before reloading the context
C11_Witness ==
    /\ thr[1].pc = "raised"
    /\ thr[1].raised = "add_interaction"
    /\ thr[1].uid > 0
    /\ thr[2].pc = "done"
    /\ Len(interactions) = 4
    /\ _context_cache = _load_context(interactions)

\* the model call of thread t starts, returns or raises in this step
ModelCallStarts(t) == thr[t].pc = "ask" /\ thr'[t].pc = "await"

ModelCallEnds(t) == thr[t].pc = "await" /\ thr'[t].pc # "await"

ModelCallRaises(t) == thr[t].pc = "await" /\ thr'[t].pc = "raised"

\* C14: when the model call of a request fails, both tables hold what they
\* held when the request started (both are append-only, so they hold it when
\* they have the number of rows they had: uid - 1 interactions, facts0 facts).
C14_NoWriteBeforeModelCallCompletes ==
    [][\A t \in Threads :
          ModelCallRaises(t) =>
              /\ Len(interactions') = thr[t].uid - 1
              /\ Len(facts') = thr[t].facts0]_vars

\* C14 amended: with requests handled one at a time, when the model call of a
\* request starts, the interactions table holds what it held when the request
\* started and the user turn of the request as its last row, and the facts
\* table holds what it held and after it the facts refresh_facts stored; no
\* step taken while the model call is under way changes a table, so both hold
\* the same when the call returns, times out or fails.
C14_OnlyUserTurnAndFactsBeforeModelCall ==
    [][\A t \in Threads :
          /\ ModelCallStarts(t) =>
                /\ Len(interactions') = thr[t].uid
                /\ interactions'[thr[t].uid].role = ROLE_USER
                /\ facts' = refresh_facts(SubSeq(facts', 1, thr[t].facts0),
                                          interactions', clock').facts
          /\ (thr[t].pc = "await" \/ ModelCallEnds(t)) =>
                interactions' = interactions /\ facts' = facts]_vars

\* a request whose model call failed after refresh_facts had stored the fact
\* of its question
C14_Witness ==
    \E t \in Threads :
        /\ ModelCallFailed(t)
        /\ Len(interactions) = thr[t].uid
        /\ Len(facts) > thr[t].facts0

\* no request is under way
BetweenRequests == \A t \in Threads : thr[t].pc \in {"idle", "done", "raised"}

\* the meta of both rows of a request of this kind
MetaOf(kind) == IF kind = "vision" THEN "vision" ELSE NoMeta

\* C27: with requests handled one at a time and every model call returning,
\* each request appends exactly two rows, a user row with the question and
\* directly after it an assistant row, so that between requests the log has
\* an even length and alternates user, assistant; both rows of handle_vision
\* have meta "vision" and both rows of handle_text have no meta.
C27_TwoRowsPerRequestAlternating ==
    (BetweenRequests /\ \A t \in Threads : ~ModelCallFailed(t)) =>
        /\ Len(interactions) % 2 = 0
        /\ \A i \in DOMAIN interactions :
              interactions[i].role = IF i % 2 = 1 THEN ROLE_USER ELSE ROLE_ASSISTANT
        /\ \A t \in Threads :
              thr[t].pc # "idle" =>
                  /\ thr[t].pc = "done"
                  /\ thr[t].aid = thr[t].uid + 1
                  /\ interactions[thr[t].uid].content \in Questions \cup VisionQuestions
                  /\ interactions[thr[t].uid].meta = MetaOf(thr[t].kind)
                  /\ interactions[thr[t].aid].meta = MetaOf(thr[t].kind)

(***************************************************************************)
(* SpecLock: the threads call the five operations of one MemoryDB, and     *)
(* every call takes its steps one at a time: `with self._lock`, the        *)
(* reading of the clock, cur.execute, self._conn.commit(), the end of the  *)
(* with block.                                                             *)
(***************************************************************************)

\* the rows the threads insert in one run
MaxStoreRows == 3

WriteOps == {"add_interaction", "add_fact"}

ReadOps == {"get_recent_interactions", "get_facts", "iter_interactions"}

\* a thread outside every store call; op is the operation it is in, ts the
\* value of datetime.utcnow().isoformat(), rows what its query fetched
Outside == [pc |-> "outside", op |-> "none", ts |-> <<>>, rows |-> <<>>]

InitLock ==
    /\ interactions = <<>>
    /\ clock = 0
    /\ _context_cache = _load_context(<<>>)
    /\ facts = refresh_facts(<<>>, <<>>, 0).facts
    /\ thr = [t \in Threads |-> Outside]
    /\ faults = 0
    /\ _lock = 0
    /\ buttons = "normal"
    /\ after_queue = <<>>
    /\ committed = Commit(interactions, facts)
    /\ args = NoCall
    /\ result = NoResult

\* with self._lock: entered without waiting for the thread that holds it
LockEnteredAtOnce(t) ==
    /\ thr[t].pc = "outside"
    /\ \E op \in WriteOps \cup ReadOps :
        /\ op \in WriteOps => Len(interactions) + Len(facts) - Len(_KEYWORD_HINTS) < MaxStoreRows
        /\ thr' = [thr EXCEPT ![t].op = op,
                              ![t].pc = IF op \in WriteOps THEN "utcnow" ELSE "select"]
    /\ _lock' = t
    /\ UNCHANGED <<interactions, facts, clock, _context_cache, faults, args, result, committed,
                   buttons, after_queue>>

\* with self._lock: the thread acquires the lock when no thread holds it
LockAcquire(t) ==
    /\ thr[t].pc = "outside"
    /\ _lock = 0
    /\ buttons = "normal"
    /\ after_queue = <<>>
    /\ \E op \in WriteOps \cup ReadOps :
        /\ op \in WriteOps => Len(interactions) + Len(facts) - Len(_KEYWORD_HINTS) < MaxStoreRows
        /\ thr' = [thr EXCEPT ![t].op = op,
                              ![t].pc = IF op \in WriteOps THEN "utcnow" ELSE "select"]
    /\ _lock' = t
    /\ UNCHANGED <<interactions, facts, clock, _context_cache, faults, args, result, committed,
                   buttons, after_queue>>

\* datetime.utcnow().isoformat(), the first value of the parameter tuple
LockUtcNow(t) ==
    /\ thr[t].pc = "utcnow"
    /\ \E now \in Now :
        /\ clock' = now
        /\ thr' = [thr EXCEPT ![t].ts = Isoformat(now), ![t].pc = "execute"]
    /\ UNCHANGED <<interactions, facts, _context_cache, faults, args, result, _lock, committed,
                   buttons, after_queue>>

\* the content, source and fact the threads insert
LOCK_CONTENT == <<"H", "i">>

\* cur.execute("INSERT ..."): the row joins the table as the connection sees
\* it; an exception leaves the with block, which releases the lock
LockExecute(t) ==
    /\ thr[t].pc = "execute"
    /\ \E outcome \in {"ok", "execute_fails"} :
        /\ CanFail(outcome)
        /\ CountFault(outcome)
        /\ IF outcome = "ok"
           THEN /\ IF thr[t].op = "add_interaction"
                   THEN /\ interactions' = Append(interactions,
                                [ts |-> thr[t].ts, role |-> ROLE_USER,
                                 content |-> LOCK_CONTENT, meta |-> NoMeta])
                        /\ facts' = facts
                   ELSE /\ facts' = Append(facts,
                                [ts |-> thr[t].ts, source |-> SOURCE_HEURISTIC,
                                 fact |-> LOCK_CONTENT, importance |-> 1])
                        /\ interactions' = interactions
                /\ thr' = [thr EXCEPT ![t].pc = "commit", ![t].ts = <<>>]
                /\ _lock' = _lock
           ELSE /\ thr' = [thr EXCEPT ![t] = Outside]
                /\ _lock' = 0
                /\ UNCHANGED <<interactions, facts>>
    /\ UNCHANGED <<clock, _context_cache, args, result, committed, buttons, after_queue>>

\* self._conn.commit(): every row of the connection is in the file; when it
\* raises the transaction stays open and the with block releases the lock
LockCommit(t) ==
    /\ thr[t].pc = "commit"
    /\ \E outcome \in {"ok", "commit_fails"} :
        /\ CanFail(outcome)
        /\ CountFault(outcome)
        /\ IF outcome = "ok"
           THEN /\ committed' = Commit(interactions, facts)
                /\ thr' = [thr EXCEPT ![t].pc = "release"]
                /\ _lock' = _lock
           ELSE /\ committed' = committed
                /\ thr' = [thr EXCEPT ![t] = Outside]
                /\ _lock' = 0
    /\ UNCHANGED <<interactions, facts, clock, _context_cache, args, result, buttons, after_queue>>

\* the SELECT of a read and its fetchall() / list(), inside the with block
LockSelect(t) ==
    /\ thr[t].pc = "select"
    /\ thr' = [thr EXCEPT ![t].pc = "release",
                          ![t].rows = CASE thr[t].op = "get_recent_interactions" ->
                                               get_recent_interactions(interactions, CONTEXT_LIMIT)
                                        [] thr[t].op = "get_facts" -> get_facts(facts, 1)
                                        [] OTHER -> iter_interactions(interactions)]
    /\ UNCHANGED <<interactions, facts, clock, _context_cache, faults, args, result,
                   _lock, committed, buttons, after_queue>>

\* the end of the with block; the call returns (a read returns its rows)
LockRelease(t) ==
    /\ thr[t].pc = "release"
    /\ _lock' = 0
    /\ thr' = [thr EXCEPT ![t] = Outside]
    /\ UNCHANGED <<interactions, facts, clock, _context_cache, faults, args, result, committed,
                   buttons, after_queue>>

NextLock ==
    \E t \in Threads :
        \/ LockAcquire(t)
        \/ LockUtcNow(t)
        \/ LockExecute(t)
        \/ LockCommit(t)
        \/ LockSelect(t)
        \/ LockRelease(t)

SpecLock == InitLock /\ [][NextLock]_vars

\* thread t is inside the with block of a store call
InWithBlock(t) == thr[t].pc # "outside"

\* C15: at most one thread at a time is inside the insert-and-commit section
\* of add_interaction / add_fact (or inside any other with block of the
\* store), and the rows a read has fetched are the rows of a committed state:
\* the connection held no row that was not committed.
C15_WritesSerialisedReadsCommitted ==
    /\ \A t, u \in Threads : (InWithBlock(t) /\ InWithBlock(u)) => t = u
    /\ \A t \in Threads :
          (thr[t].pc = "release" /\ thr[t].op \in ReadOps) =>
              committed = Commit(interactions, facts)

\* the place of a digit in the order of the characters
DigitOrder(c) == CHOOSE k \in DOMAIN Digits : Digits[k] = c

RECURSIVE NotLater(_, _)
\* timestamp a is not later than timestamp b: the order of the ISO strings
NotLater(a, b) ==
    IF a = <<>> THEN TRUE
    ELSE IF b = <<>> THEN FALSE
    ELSE IF Head(a) = Head(b) THEN NotLater(Tail(a), Tail(b))
    ELSE DigitOrder(Head(a)) < DigitOrder(Head(b))

\* C19: for every interleaving of the add_interaction calls of the threads, a
\* row inserted earlier never carries a later timestamp than a row inserted
\* after it.
C19_TimestampsNonDecreasing ==
    \A i, j \in DOMAIN interactions :
        i < j => NotLater(interactions[i].ts, interactions[j].ts)

\* two interactions with different timestamps, and a third thread or call
\* under way
C19_Witness ==
    /\ Len(interactions) = 2
    /\ interactions[1].ts # interactions[2].ts
    /\ \E t \in Threads : thr[t].pc = "commit" /\ thr[t].op = "add_interaction"

(***************************************************************************)
(* SpecCalls: each thread runs one handle_text, which is the list of its   *)
(* store calls with the model call between them.  A store call is two      *)
(* steps, `with self._lock` and the rest of the with block up to its end;  *)
(* the model call is two steps, the call and its return.                   *)
(***************************************************************************)

\* the calls of handle_text in their order: _record_interaction (two store
\* calls), refresh_facts (two reads and its add_fact calls),
\* get_relevant_facts (one read), the model call, _record_interaction
RequestCalls ==
    <<"add_interaction", "get_recent_interactions", "get_facts", "iter_interactions",
      "add_fact", "get_facts", "ask_text", "add_interaction", "get_recent_interactions">>

\* the add_fact calls of one refresh_facts run
MaxAddFacts == 1

\* a thread whose request has not made its first call; step is the place in
\* RequestCalls, adds the add_fact calls made, behind tells that another
\* request was waiting for the model when this one made its first call
NotStarted == [pc |-> "outside", step |-> 1, adds |-> 0, behind |-> FALSE]

InitCalls ==
    /\ interactions = <<>>
    /\ clock = 0
    /\ _context_cache = _load_context(<<>>)
    /\ facts = refresh_facts(<<>>, <<>>, 0).facts
    /\ thr = [t \in Threads |-> NotStarted]
    /\ faults = 0
    /\ _lock = 0
    /\ buttons = "normal"
    /\ after_queue = <<>>
    /\ committed = Commit(interactions, facts)
    /\ args = NoCall
    /\ result = NoResult

\* the thread is outside every with block and its next call is call
NextCallIs(t, call) ==
    /\ thr[t].pc = "outside"
    /\ thr[t].step <= Len(RequestCalls)
    /\ RequestCalls[thr[t].step] = call

\* the model call made inside a with block of the store
LlmCallInsideWith(t) ==
    /\ NextCallIs(t, "ask_text")
    /\ _lock = 0
    /\ buttons = "normal"
    /\ after_queue = <<>>
    /\ _lock' = t
    /\ thr' = [thr EXCEPT ![t].pc = "await"]
    /\ UNCHANGED <<interactions, facts, clock, _context_cache, faults, args, result, committed,
                   buttons, after_queue>>

\* with self._lock: the thread enters when no thread holds the lock
WithEnter(t) ==
    /\ \E call \in WriteOps \cup ReadOps : NextCallIs(t, call)
    /\ NextCallIs(t, "add_fact") => thr[t].adds < MaxAddFacts
    /\ _lock = 0
    /\ buttons = "normal"
    /\ after_queue = <<>>
    /\ _lock' = t
    /\ thr' = [thr EXCEPT ![t].pc = "inside",
                          ![t].behind = IF thr[t].step = 1
                                        THEN \E u \in Threads : thr[u].pc = "await"
                                        ELSE @]
    /\ UNCHANGED <<interactions, facts, clock, _context_cache, faults, args, result, committed,
                   buttons, after_queue>>

\* where the thread is after the call at its step has returned
AfterCall(t) ==
    IF RequestCalls[thr[t].step] = "add_fact"
    THEN [thr[t] EXCEPT !.pc = "outside", !.adds = @ + 1]
    ELSE [thr[t] EXCEPT !.pc = IF thr[t].step = Len(RequestCalls) THEN "returned" ELSE "outside",
                        !.step = @ + 1]

\* the body of the with block and its end: the insert and commit of a write
\* or the query of a read, then the lock is released, also when the body
\* raises (the exception then leaves handle_text)
WithExit(t) ==
    /\ thr[t].pc = "inside"
    /\ \E outcome \in PersistenceOutcomes :
        LET call == RequestCalls[thr[t].step]
        IN  /\ call \in ReadOps => outcome = "ok"
            /\ CanFail(outcome)
            /\ CountFault(outcome)
            /\ interactions' =
                   IF call = "add_interaction" /\ outcome # "execute_fails"
                   THEN add_interaction(interactions, clock,
                                        IF thr[t].step = 1 THEN ROLE_USER ELSE ROLE_ASSISTANT,
                                        LOCK_CONTENT, NoMeta)
                   ELSE interactions
            /\ facts' =
                   IF call = "add_fact" /\ outcome # "execute_fails"
                   THEN add_fact(facts, clock, InteractionSource(Isoformat(clock)), LOCK_CONTENT, 2)
                   ELSE facts
            /\ committed' = IF call \in WriteOps /\ outcome = "ok"
                            THEN Commit(interactions', facts') ELSE committed
            /\ thr' = [thr EXCEPT ![t] = IF outcome = "ok" THEN AfterCall(t)
                                         ELSE [thr[t] EXCEPT !.pc = "raised"]]
    /\ _lock' = 0
    /\ UNCHANGED <<clock, _context_cache, args, result, buttons, after_queue>>

\* the loops of refresh_facts end: no candidate is left for an add_fact call
RefreshLoopEnds(t) ==
    /\ NextCallIs(t, "add_fact")
    /\ thr' = [thr EXCEPT ![t].step = @ + 1]
    /\ UNCHANGED <<interactions, facts, clock, _context_cache, faults, args, result,
                   _lock, committed, buttons, after_queue>>

\* self.llm.ask_text(...): called outside every with block
LlmCall(t) ==
    /\ NextCallIs(t, "ask_text")
    /\ thr' = [thr EXCEPT ![t].pc = "await"]
    /\ UNCHANGED <<interactions, facts, clock, _context_cache, faults, args, result,
                   _lock, committed, buttons, after_queue>>

\* the model call returns, or raises and leaves handle_text
LlmReturn(t) ==
    /\ thr[t].pc = "await"
    /\ \E raises \in BOOLEAN :
        /\ raises => faults < MaxFaults
        /\ faults' = IF raises THEN faults + 1 ELSE faults
        /\ thr' = [thr EXCEPT ![t].pc = IF raises THEN "raised" ELSE "outside",
                              ![t].step = IF raises THEN @ ELSE @ + 1]
    /\ UNCHANGED <<interactions, facts, clock, _context_cache, args, result, _lock, committed,
                   buttons, after_queue>>

NextCalls ==
    \E t \in Threads :
        \/ WithEnter(t)
        \/ WithExit(t)
        \/ RefreshLoopEnds(t)
        \/ LlmCall(t)
        \/ LlmReturn(t)

SpecCalls == InitCalls /\ [][NextCalls]_vars

\* a thread that is neither waiting for the model nor through with its request
Runnable(t) == thr[t].pc \in {"outside", "inside"}

\* C28: the store lock is never held by a request that waits in the model
\* call; whoever holds it is inside a with block, which it can leave; and as
\* long as a request is neither through nor waiting for the model, some
\* request can take its next step: no interleaving deadlocks on the lock.
C28_LockNotHeldAcrossModelCall ==
    /\ \A t \in Threads : thr[t].pc = "await" => _lock # t
    /\ _lock # 0 => (thr[_lock].pc = "inside" /\ ENABLED WithExit(_lock))
    /\ \A t \in Threads :
          (Runnable(t) /\ _lock = 0) =>
              ENABLED (WithEnter(t) \/ RefreshLoopEnds(t) \/ LlmCall(t))

\* while request 1 waits for the model, request 2 has started, written its
\* user turn, run refresh_facts with an add_fact and ranked, and has reached
\* its own model call
C28_Witness ==
    /\ thr[1].pc = "await"
    /\ thr[2].pc = "await"
    /\ thr[2].behind
    /\ thr[2].adds = 1
    /\ _lock = 0
    /\ buttons = "normal"
    /\ after_queue = <<>>

(***************************************************************************)
(* Claims about get_facts and get_relevant_facts, checked under SpecRank.  *)
(***************************************************************************)

\* C18: get_facts(minimum_importance) returns exactly the stored facts whose
\* importance is at least minimum_importance, each once and as stored, ordered
\* by importance descending and, among equal importance, the fact inserted
\* later first.
C18_GetFactsFiltersAndOrders ==
    args.fn = "get_facts" =>
        LET got == result.value
        IN  /\ {got[k].id : k \in DOMAIN got} =
                  {i \in DOMAIN facts : facts[i].importance >= args.minimum_importance}
            /\ \A k, l \in DOMAIN got : k # l => got[k].id # got[l].id
            /\ \A k \in DOMAIN got :
                  /\ got[k].fact = facts[got[k].id].fact
                  /\ got[k].source = facts[got[k].id].source
                  /\ got[k].ts = facts[got[k].id].ts
                  /\ got[k].importance = facts[got[k].id].importance
            /\ \A k, l \in DOMAIN got :
                  k < l => \/ got[k].importance > got[l].importance
                           \/ got[k].importance = got[l].importance /\ got[k].id > got[l].id

\* two facts of the same importance returned, and a third row filtered out
\* or the table holding just the two
C18_Witness ==
    /\ args.fn = "get_facts"
    /\ args.minimum_importance = 1
    /\ Len(result.value) = 2
    /\ result.value[1].importance = result.value[2].importance
    /\ result.value[1].fact # result.value[2].fact

RECURSIVE TokenPoints(_, _)
\* 2 points for every token of the list that is a substring of the query
TokenPoints(tokens, query_lower) ==
    IF tokens = <<>> THEN 0
    ELSE (IF Contains(query_lower, Head(tokens)) THEN 2 ELSE 0)
         + TokenPoints(Tail(tokens), query_lower)

\* the total of the three parts of the score for one row of the facts table
\* and one query (the tokens are those of the lower-cased fact text)
TotalPoints(query, row) ==
    TokenPoints(FindWords(Lower(row.fact)), Lower(query))
    + (IF StartsWith(row.source, InteractionSource(<<>>)) THEN 1 ELSE 0)
    + row.importance

\* C21: the score get_relevant_facts gives a fact is 2 for every word token
\* of the fact text that is a substring of the lower-cased query, plus 1 if
\* the source starts with "interaction:", plus the importance; no fact whose
\* total is 0 is in the scored list, and the result holds only scored facts.
C21_ScoreIsTokensSourceImportance ==
    /\ args.fn = "scored" =>
          /\ \A k \in DOMAIN result.value :
                /\ result.value[k].score = TotalPoints(args.query, facts[result.value[k].fact.id])
                /\ result.value[k].score # 0
          /\ \A i \in DOMAIN facts :
                TotalPoints(args.query, facts[i]) = 0 =>
                    \A k \in DOMAIN result.value : result.value[k].fact.id # i
    /\ args.fn = "get_relevant_facts" =>
          \A k \in DOMAIN args.ids : TotalPoints(args.query, facts[args.ids[k]]) # 0

\* a derived fact of importance 2 with one token in the query scored 5, next
\* to a row of total 0 that is left out
C21_Witness ==
    /\ args.fn = "scored"
    /\ args.query = CAD_QUERY
    /\ Len(facts) = 2
    /\ Len(result.value) = 1
    /\ result.value[1].score = 5
    /\ result.value[1].fact.fact = CAD_FACT
    /\ \E i \in DOMAIN facts : TotalPoints(args.query, facts[i]) = 0

(***************************************************************************)
(* Claims about the paragraphs of apply_style, checked under SpecStyle.    *)
(***************************************************************************)

BLANK_LINE == <<"\n", "\n">>

ICH_DENKE == <<"i", "c", "h", " ", "d", "e", "n", "k", "e">>

VIELLEICHT == <<"v", "i", "e", "l", "l", "e", "i", "c", "h", "t">>

\* the text ends with terminal punctuation
Terminated(text) == text # <<>> /\ text[Len(text)] \in {".", "!", "?"}

\* a paragraph with its hedging phrases replaced and a full stop where it
\* has no terminal punctuation
Transformed(para) ==
    LET reworded == Replace(Replace(para, ICH_DENKE,
                                    <<"i", "c", "h", " ", "e", "m", "p", "f", "e", "h", "l", "e">>),
                            VIELLEICHT, <<"b", "i", "t", "t", "e">>)
    IN  IF Terminated(reworded) THEN reworded ELSE reworded \o <<".">>

\* greeting, an empty line, the paragraphs, an empty line, closing
Assembled(profile, paragraphs) ==
    Join(<<profile.greeting, <<>>>> \o paragraphs \o <<<<>>, profile.closing>>, <<"\n">>)

\* the non-empty trimmed pieces between the blank-line boundaries of a text
PiecesBetweenBlankLines(body) == NonEmptyStripped(Split(body, BLANK_LINE))

\* C22: apply_style splits the trimmed text into paragraphs at blank-line
\* boundaries, and a text without a blank-line boundary is one paragraph in
\* which every newline has become a space: it is a single line of the output.
C22_TextWithoutBlankLineIsOneLine ==
    (result.returned /\ Strip(args.raw_text) # <<>>) =>
        LET body == Strip(args.raw_text)
            pieces == PiecesBetweenBlankLines(body)
        IN  IF Contains(body, BLANK_LINE)
            THEN result.value =
                     Assembled(args.profile, [k \in DOMAIN pieces |-> Transformed(pieces[k])])
            ELSE result.value =
                     Assembled(args.profile, <<Transformed(Replace(body, <<"\n">>, <<" ">>))>>)

\* C23: for an empty or whitespace-only text the output is greeting, a blank
\* line, closing; otherwise it is the newline-join of greeting, an empty line,
\* the transformed paragraphs in their order, an empty line and closing, and
\* every transformed paragraph ends with ".", "!" or "?" and holds neither
\* "ich denke" nor "vielleicht".
C23_OutputIsGreetingParagraphsClosing ==
    result.returned =>
        LET body == Strip(args.raw_text)
            pieces == PiecesBetweenBlankLines(body)
            transformed == [k \in DOMAIN pieces |-> Transformed(pieces[k])]
        IN  IF body = <<>>
            THEN result.value = args.profile.greeting \o BLANK_LINE \o args.profile.closing
            ELSE /\ result.value = Assembled(args.profile, transformed)
                 /\ \A k \in DOMAIN transformed :
                       /\ Terminated(transformed[k])
                       /\ ~Contains(transformed[k], ICH_DENKE)
                       /\ ~Contains(transformed[k], VIELLEICHT)

\* two paragraphs, the first of them reworded, both given a full stop
C23_Witness ==
    /\ result.returned
    /\ args.profile = DefaultProfile
    /\ args.raw_text = VIELLEICHT \o BLANK_LINE \o <<"a">>
    /\ result.value =
          DEFAULT_GREETING \o BLANK_LINE \o <<"b", "i", "t", "t", "e", ".", "\n", "a", ".">>
          \o BLANK_LINE \o DEFAULT_CLOSING

(***************************************************************************)
(* Claims about the rows of the facts table, checked under Spec.           *)
(***************************************************************************)

\* a row of the fixed seed table
IsSeedFact(row) ==
    /\ row.source = SOURCE_HEURISTIC
    /\ row.importance = 1
    /\ \E k \in DOMAIN _KEYWORD_HINTS : row.fact = _KEYWORD_HINTS[k]

\* a row derived from the sentence of an interaction of the log
IsDerivedFact(row) ==
    /\ row.importance = 2
    /\ \E phrase \in _IMPORTANT_PHRASES : Contains(Lower(row.fact), phrase)
    /\ \E i \in DOMAIN interactions :
          /\ row.source = InteractionSource(interactions[i].ts)
          /\ row.fact \in Range(_extract_sentences(interactions[i].content))

\* C24: in every reachable state each stored fact is a seed (source
\* "heuristic", importance 1, a text of the seed table) or a derived fact of
\* importance 2 whose source is "interaction:<ts>" for the timestamp of an
\* interaction of the log and whose text is a sentence of the content of that
\* interaction that holds a signal phrase, letter case aside.
C24_FactsAreSeedsOrDerivedSentences ==
    \A k \in DOMAIN facts : IsSeedFact(facts[k]) \/ IsDerivedFact(facts[k])

\* a fact that is one sentence of an answer of two sentences, next to a fact
\* that is a whole question
C24_Witness ==
    /\ \E k \in DOMAIN facts, i \in DOMAIN interactions :
          /\ facts[k].source = InteractionSource(interactions[i].ts)
          /\ interactions[i].role = ROLE_ASSISTANT
          /\ facts[k].fact # interactions[i].content
          /\ facts[k].fact \in Range(_extract_sentences(interactions[i].content))
    /\ \E k \in DOMAIN facts, i \in DOMAIN interactions :
          /\ interactions[i].role = ROLE_USER
          /\ facts[k].fact = interactions[i].content

\* every request that was started has returned: none is under way, none raised
AllReturned == \A t \in Threads : thr[t].pc \in {"idle", "done"}

\* C26: once every request of a set of concurrent requests has returned and
\* none is in flight, _context_cache is the formatted window of the 30 newest
\* interactions of the store: no context loaded earlier overwrites one that
\* was loaded later.
C26_CacheFreshWhenAllReturned ==
    AllReturned => _context_cache = _load_context(interactions)

(***************************************************************************)
(* SpecFresh: a KnowledgeBuilder on a store whose facts table is still     *)
(* empty (no refresh_facts has run on it), one caller at a time.           *)
(***************************************************************************)

\* "Wir muessen CAD-Faelle vor 10 Uhr melden."
WIR_MUESSEN ==
    <<"W", "i", "r", " ", "m", "ue", "s", "s", "e", "n", " ", "C", "A", "D", "-", "F", "ae",
      "l", "l", "e", " ", "v", "o", "r", " ", "1", "0", " ", "U", "h", "r", " ", "m", "e", "l",
      "d", "e", "n", ".">>

\* contents appended: the sentence of the scenario, the text of the CAD seed
\* in lower case, a text with no signal
FreshContents == { WIR_MUESSEN, Lower(_KEYWORD_HINTS[1]), <<"H", "i">> }

InitFresh ==
    /\ interactions = <<>>
    /\ facts = <<>>
    /\ clock = 0
    /\ _context_cache = _load_context(<<>>)
    /\ thr = [t \in Threads |-> Idle]
    /\ faults = 0
    /\ _lock = 0
    /\ buttons = "normal"
    /\ after_queue = <<>>
    /\ committed = Commit(interactions, facts)
    /\ args = NoCall
    /\ result = NoResult

\* the interactions the caller appends to the fresh store
MaxFreshRows == 1

FreshAddInteraction ==
    /\ Len(interactions) < MaxFreshRows
    /\ \E content \in FreshContents, now \in Now :
        /\ interactions' = add_interaction(interactions, now, SeqRole, content, NoMeta)
        /\ clock' = now
    /\ args' = [fn |-> "add_interaction"]
    /\ result' = NoResult
    /\ committed' = Commit(interactions', facts)
    /\ UNCHANGED <<facts, _context_cache, thr, faults, _lock, buttons, after_queue>>

NextFresh == FreshAddInteraction \/ SeqRefreshFacts

SpecFresh == InitFresh /\ [][NextFresh]_vars

\* the ids of the rows whose normalised text is that of text
RowsOfText(text) == {i \in DOMAIN facts : _normalise(facts[i].fact) = _normalise(text)}

\* the store of the scenario: no fact before the run, and the one sentence
\* as the only interaction
ScenarioRefreshed ==
    /\ args.fn = "refresh_facts"
    /\ result.returned
    /\ args.facts_before = 0
    /\ Len(interactions) = 1
    /\ interactions[1].role = ROLE_USER
    /\ interactions[1].content = WIR_MUESSEN

\* C25: after a refresh_facts run that returned, the store holds under the
\* normalised text of each seed exactly one fact; the seeds a run inserts
\* (source "heuristic", importance 1) come after the derived facts it
\* inserts.  From an empty store and the one user interaction "Wir muessen
\* CAD-Faelle vor 10 Uhr melden." the store holds one derived fact with that
\* sentence and source interaction:<ts>, and the CAD seed once.
C25_SeedsPresentExactlyOnce ==
    (args.fn = "refresh_facts" /\ result.returned) =>
        /\ \A k \in DOMAIN _KEYWORD_HINTS :
              Cardinality(RowsOfText(_KEYWORD_HINTS[k])) = 1
        /\ \A i, j \in (args.facts_before + 1)..Len(facts) :
              (i < j /\ facts[i].source = SOURCE_HEURISTIC) =>
                  /\ facts[j].source = SOURCE_HEURISTIC
                  /\ facts[i].importance = 1
        /\ ScenarioRefreshed =>
              /\ Len(facts) = 1 + Len(_KEYWORD_HINTS)
              /\ facts[1] = FactRow(clock, InteractionSource(interactions[1].ts), WIR_MUESSEN, 2)
              /\ RowsOfText(WIR_MUESSEN) = {1}
              /\ \E i \in DOMAIN facts :
                    /\ RowsOfText(_KEYWORD_HINTS[1]) = {i}
                    /\ facts[i].fact = _KEYWORD_HINTS[1]
                    /\ facts[i].source = SOURCE_HEURISTIC

\* the scenario, its run being the first on the store
C25_Witness ==
    /\ ScenarioRefreshed
    /\ args.before.fn = "add_interaction"
    /\ Len(result.value) = 1 + Len(_KEYWORD_HINTS)

(***************************************************************************)
(* SpecApp: the window of ui/app.py.  The handlers of the buttons and of   *)
(* the chat window run on the Tk main loop, each request runs on a worker  *)
(* thread of its own, and the worker hands its answer back to the main     *)
(* loop with root.after(0, _update).  The window stays open.               *)
(***************************************************************************)

\* what a worker passes to _post_answer
STYLED_ANSWER == "styled"

\* f"Fehler bei der Anfrage: {exc}" and f"Fehler bei der Analyse: {exc}"
FEHLER_ANFRAGE == "Fehler bei der Anfrage"

FEHLER_ANALYSE == "Fehler bei der Analyse"

\* the text of the input box when a handler reads it: blank, or a question
InputTexts == { <<" ">>, <<"H", "i">> }

\* a worker thread that has not been started.  via is the handler that
\* started it, outcome how its try block ended, answer the argument of
\* _post_answer, posts the _post_answer calls made, shown the assistant
\* message _update appended to the chat window
NoWorker ==
    [pc |-> "idle", via |-> "none", outcome |-> "none", answer |-> "none", posts |-> 0,
     shown |-> "none"]

InitApp ==
    /\ buttons = "normal"
    /\ after_queue = <<>>
    /\ thr = [t \in Threads |-> NoWorker]
    /\ interactions = <<>>
    /\ clock = 0
    /\ _context_cache = _load_context(<<>>)
    /\ facts = refresh_facts(<<>>, <<>>, 0).facts
    /\ faults = 0
    /\ _lock = 0
    /\ committed = Commit(interactions, facts)
    /\ args = NoCall
    /\ result = NoResult

\* thread t is the next worker thread to be started
NextWorker(t) ==
    /\ thr[t].pc = "idle"
    /\ \A u \in Threads : u < t => thr[u].pc # "idle"

\* _start_worker(self.router.handle_text, text), and the last two lines of
\* _on_request_screen: the buttons are disabled and the thread is started
StartWorker(t, via) ==
    /\ buttons' = "disabled"
    /\ thr' = [thr EXCEPT ![t].via = via,
                          ![t].pc = IF via = "_on_request_screen" THEN "capture" ELSE "router"]

\* ChatWindow._on_return / _trigger_send, which call _on_user_text: the
\* Return key and the button "Senden" are not among the buttons
\* _set_buttons_state configures; a blank input returns at once
OnSend(t) ==
    /\ NextWorker(t)
    /\ \E text \in InputTexts :
        IF Strip(text) = <<>> THEN UNCHANGED <<buttons, thr>> ELSE StartWorker(t, "_on_user_text")
    /\ UNCHANGED <<interactions, facts, clock, _context_cache, faults, args, result, _lock,
                   committed, after_queue>>

\* _on_request_text, the command of a button that is not disabled
OnRequestText(t) ==
    /\ NextWorker(t)
    /\ buttons = "normal"
    /\ \E text \in InputTexts :
        IF Strip(text) = <<>> THEN UNCHANGED <<buttons, thr>> ELSE StartWorker(t, "_on_request_text")
    /\ UNCHANGED <<interactions, facts, clock, _context_cache, faults, args, result, _lock,
                   committed, after_queue>>

\* _on_request_screen, the command of a button that is not disabled
OnRequestScreen(t) ==
    /\ NextWorker(t)
    /\ buttons = "normal"
    /\ \E question \in InputTexts :
        IF Strip(question) = <<>> THEN UNCHANGED <<buttons, thr>>
        ELSE StartWorker(t, "_on_request_screen")
    /\ UNCHANGED <<interactions, facts, clock, _context_cache, faults, args, result, _lock,
                   committed, after_queue>>

\* self._post_answer(answer) on the worker thread: root.after(0, _update)
PostAnswer(t, outcome, answer) ==
    /\ thr' = [thr EXCEPT ![t].pc = "posted", ![t].outcome = outcome, ![t].answer = answer,
                          ![t].posts = @ + 1]
    /\ after_queue' = Append(after_queue, t)

\* the worker of _on_request_screen up to the router call: the screenshots
\* are taken, or there is no monitor, or capture_all_screens raises
Capture(t) ==
    /\ thr[t].pc = "capture"
    /\ \E shots \in {"taken", "none", "raises"} :
        IF shots = "taken"
        THEN thr' = [thr EXCEPT ![t].pc = "router"] /\ UNCHANGED after_queue
        ELSE PostAnswer(t, "raised", FEHLER_ANALYSE)
    /\ UNCHANGED <<interactions, facts, clock, _context_cache, faults, args, result, _lock,
                   committed, buttons>>

\* the router call of the worker returns the styled answer
RouterReturns(t) ==
    /\ thr[t].pc = "router"
    /\ PostAnswer(t, "returned", STYLED_ANSWER)
    /\ UNCHANGED <<interactions, facts, clock, _context_cache, faults, args, result, _lock,
                   committed, buttons>>

\* a worker whose exception is not caught: the thread ends
RouterRaisesUncaught(t) ==
    /\ thr[t].pc = "router"
    /\ thr' = [thr EXCEPT ![t].pc = "ended", ![t].outcome = "raised"]
    /\ UNCHANGED <<interactions, facts, clock, _context_cache, faults, args, result, _lock,
                   committed, buttons, after_queue>>

\* the router call of the worker raises: except Exception builds the answer
RouterRaises(t) ==
    /\ thr[t].pc = "router"
    /\ PostAnswer(t, "raised",
                  IF thr[t].via = "_on_request_screen" THEN FEHLER_ANALYSE ELSE FEHLER_ANFRAGE)
    /\ UNCHANGED <<interactions, facts, clock, _context_cache, faults, args, result, _lock,
                   committed, buttons>>

\* _update on the main loop: the callback queued first runs first
Update(t) ==
    /\ after_queue # <<>>
    /\ Head(after_queue) = t
    /\ after_queue' = Tail(after_queue)
    /\ thr' = [thr EXCEPT ![t].pc = "updated", ![t].shown = thr[t].answer]
    /\ buttons' = "normal"
    /\ UNCHANGED <<interactions, facts, clock, _context_cache, faults, args, result, _lock,
                   committed>>

NextApp ==
    \E t \in Threads :
        \/ OnSend(t)
        \/ OnRequestText(t)
        \/ OnRequestScreen(t)
        \/ Capture(t)
        \/ RouterReturns(t)
        \/ RouterRaises(t)
        \/ Update(t)

\* a started worker runs on: capture_all_screens and the router call return
\* or raise, and the main loop runs the callbacks queued for it
FairApp ==
    \A t \in Threads :
        /\ WF_vars(Capture(t))
        /\ WF_vars(RouterReturns(t) \/ RouterRaises(t))
        /\ WF_vars(Update(t))

SpecApp == InitApp /\ [][NextApp]_vars /\ FairApp

\* the worker of thread t is started and has not called _post_answer
InFlight(t) == thr[t].pc \in {"capture", "router"}

\* C29: every request started on a worker thread leads to exactly one
\* _post_answer call, with the answer of the router when it returned and with
\* a "Fehler ..." text when the router or the screen capture raised; the
\* update it posts runs and sets the buttons to "normal".
C29_EveryRequestPostsOneAnswer ==
    /\ [](\A t \in Threads :
            /\ thr[t].posts <= 1
            /\ thr[t].pc \in {"posted", "updated"} =>
                  /\ thr[t].posts = 1
                  /\ thr[t].outcome = "returned" => thr[t].answer = STYLED_ANSWER
                  /\ thr[t].outcome = "raised" =>
                        thr[t].answer \in {FEHLER_ANFRAGE, FEHLER_ANALYSE}
            /\ thr[t].pc = "updated" => thr[t].shown = thr[t].answer)
    /\ \A t \in Threads :
          InFlight(t) ~> (thr[t].pc = "updated" /\ thr[t].posts = 1)
    /\ [][\A t \in Threads :
            (thr[t].pc # "updated" /\ thr'[t].pc = "updated") => buttons' = "normal"]_vars

\* a request whose router call raised: its "Fehler ..." text is shown and the
\* buttons are enabled again
C29_Witness ==
    \E t \in Threads :
        /\ thr[t].pc = "updated"
        /\ thr[t].via = "_on_request_text"
        /\ thr[t].outcome = "raised"
        /\ thr[t].shown = FEHLER_ANFRAGE
        /\ buttons = "normal"

\* C30: the buttons are "disabled" whenever a request is in flight, also
\* when a further request was started over the send path of the chat window
\* while an earlier one was running and the earlier one finishes first.
C30_ButtonsDisabledWhileInFlight ==
    (\E t \in Threads : InFlight(t)) => buttons = "disabled"

=============================================================================
